---- MODULE Spec2Model ----
(***************************************************************************)
(* A model of the passk vault core: the container file codec               *)
(* (src/src/data/file.rs) and the key derivation / AEAD envelope           *)
(* (src/src/data/database.rs).                                             *)
(*                                                                         *)
(* Representation.  A file, a blob and a serialized structure are          *)
(* sequences of tokens.  A token is a record:                              *)
(*   [b |-> n]     one raw byte with value n (magic, version text, '\n',    *)
(*                 JSON punctuation, a byte written by an editor);         *)
(*   [str |-> s]   one string literal of a serialization;                  *)
(*   [num |-> n]   one number of a serialization (an integer field, a      *)
(*                 length prefix, a plain byte of a byte vector);          *)
(*   [enc |-> ..]  one ciphertext byte of the stream cipher;               *)
(*   [mac |-> ..]  the Poly1305 tag.                                       *)
(* Cryptography is symbolic (perfect): Argon2id is an injective function   *)
(* of all its inputs, a ciphertext byte opens only under the key and       *)
(* nonce that made it, and a tag is equal to a recomputed tag only when    *)
(* key, nonce, associated data and ciphertext body are all equal.          *)
(***************************************************************************)
EXTENDS Integers, Sequences, FiniteSets, TLC

VARIABLES
    disk,        \* the vault file at the target path: [exists, bytes]
    data,        \* Spec: the decrypted record held in memory (Data)
    db,          \* Spec: the envelope held in memory (Database)
    res,         \* the last operation: [op, arg, r] with r = Ok(..) / Err(..)
    printed,     \* Spec: what the last operation wrote to standard output
    keyMem,      \* Spec: content of the buffer that held the derived key,
                 \*       observed after the last operation returned
    sealed,      \* Spec (history): inputs and output of the last successful
                 \*       encrypt_database
    savedIters,  \* Spec (history): iteration decoded from the file after each
                 \*       successful save that followed an encryption
    tampers,     \* Spec: number of edits made to the file from outside
    pc,          \* SpecFile: where each process stands in save_database
    off,         \* SpecFile: the offset of each process's open file
    env,         \* SpecFile: the envelope each process saves
    loads,       \* SpecFile: number of load_database calls made so far
    gen,         \* SpecGen: the password generator form (FieldGenerator)
    generated,   \* SpecGen: the last FieldGenerator::submit call: the
                 \*       alphabet it built and what it returned
    textInput,   \* SpecInput: a text input widget (TextInput)
    viewport,    \* SpecInput: the width of the last render of the widget,
                 \*       None once a key has changed it since
    explorer,    \* SpecExplorer: the entry list screen (Explorer) with the
                 \*       dialogs it owns
    lastKey,     \* SpecExplorer: the last key event Explorer::input handled
    call,        \* SpecCodec, SpecPreview: the last call of the function
                 \*       under study: [arg, out]
    generator,   \* SpecForm: the password generator form as a widget
                 \*       (FieldGenerator with its inputs and its focus)
    prompt       \* SpecPrompt: the password prompt (PasswordPrompt)

\* the state of the user interface
genVars == <<gen, generated>>
formVars == <<generator, prompt>>
uiVars == <<genVars, formVars, textInput, viewport, explorer, lastKey, call>>

\* the state of the vault core
coreVars == <<disk, data, db, res, printed, keyMem, sealed, savedIters,
              tampers, pc, off, env, loads>>

vars == <<disk, data, db, res, printed, keyMem, sealed, savedIters, tampers,
          pc, off, env, loads, uiVars>>

(***************************************************************************)
(* Bounds of the model.                                                    *)
(***************************************************************************)
MaxEntries == 1     \* entries the record may hold
MaxNonce == 0       \* nonces are drawn from 0..MaxNonce
MaxTamper == 1      \* edits made to the file from outside
MaxSaves == 2       \* successful saves recorded in savedIters
MaxLoads == 2       \* load_database calls in SpecFile
MaxLength == 2      \* the largest number in the generator's Length input
MaxCustom == 2      \* scalars in the generator's Custom input
MaxText == 3        \* graphemes in the text input of SpecInput
MaxViewport == 2    \* the widest viewport of SpecInput
MaxName == 1        \* graphemes typed into a prompt of the Explorer
MaxUiEntries == 1   \* entries in the Explorer's list
MaxFields == 2      \* fields of an entry in the entry editor
MaxCodecFields == 2 \* fields of an entry in SpecCodec
MaxListEntries == 2 \* entries in the list of SpecLists
MaxFormText == 1    \* digits in a text input of the generator form
MaxPassword == 2    \* graphemes typed into the password prompt

(***************************************************************************)
(* Results and tokens.                                                     *)
(***************************************************************************)
Ok(v) == [ok |-> TRUE, val |-> v]
Err(e) == [ok |-> FALSE, err |-> e]

\* Option
None == [some |-> FALSE]
Some(v) == [some |-> TRUE, val |-> v]

B(n) == [b |-> n]
Num(n) == [num |-> n]
Str(s) == [str |-> s]

IsNum(t, lo, hi) == /\ DOMAIN t = {"num"}
                    /\ t.num >= lo
                    /\ t.num <= hi

\* a byte of a Vec<u8>: a plain byte, or a byte produced by the cipher
IsU8(t) == \/ IsNum(t, 0, 255)
           \/ DOMAIN t = {"enc", "k", "n", "i"}
           \/ DOMAIN t = {"mac"}

NL == B(10)

StartsWith(bytes, prefix) ==
    /\ Len(bytes) >= Len(prefix)
    /\ SubSeq(bytes, 1, Len(prefix)) = prefix

\* index of the last element equal to t, 0 when there is none
RPosition(bytes, t) ==
    LET hits == {i \in 1..Len(bytes) : bytes[i] = t}
    IN IF hits = {} THEN 0 ELSE CHOOSE i \in hits : \A j \in hits : j <= i

\* index of the first element equal to t at or after from, 0 when there is none
Position(bytes, t, from) ==
    LET hits == {i \in from..Len(bytes) : bytes[i] = t}
    IN IF hits = {} THEN 0 ELSE CHOOSE i \in hits : \A j \in hits : i <= j

(***************************************************************************)
(* file.rs: magic and version.                                             *)
(***************************************************************************)
MAGIC == <<B(255), B(73), B(224), B(80), B(65), B(83), B(83), B(75)>>

\* "0.1"
PasskVersion_into == <<B(48), B(46), B(49)>>

\* variant: every version string is accepted
PasskVersion_try_from_any(value) == Ok("V0_1")

PasskVersion_try_from(value) ==
    IF value = <<B(48), B(46), B(49)>> THEN Ok("V0_1") ELSE Err("Unknown version")

(***************************************************************************)
(* database.rs: the data types.  A Database is                             *)
(*   [version, cipher, kdf |-> [salt, memory, iterations, key_len,         *)
(*    parallelism], blob];  a Data is [iteration, entries, created_at,     *)
(*    modified_at].  An entry stands for its name.                         *)
(***************************************************************************)
Versions == {"V1"}
Ciphers == {"XChaCha20Poly1305V1"}

\* position of a variant in its enum, as the derived serializers number it
VariantIndex(v) == 0

\* variant: the blob is left in the header
HeaderOf_keep_blob(d) == d

\* header = db.clone(); header.blob = vec![]
HeaderOf(d) == [d EXCEPT !.blob = <<>>]

(***************************************************************************)
(* serde_json (file.rs:50, file.rs:66).  The compact text of a Database,   *)
(* one token per literal: '{' version cipher kdf-variant salt memory       *)
(* iterations key_len parallelism '[' blob bytes ']' '}'.  The writer      *)
(* emits no whitespace; the reader skips whitespace around the value.      *)
(* A u32 is checked against 2147483647, the largest number the checker     *)
(* represents; no value of the model comes near either limit.              *)
(***************************************************************************)
serde_json_to_string(d) ==
    <<B(123), Str(d.version), Str(d.cipher), Str("Argon2Id"),
      Num(d.kdf.salt), Num(d.kdf.memory), Num(d.kdf.iterations),
      Num(d.kdf.key_len), Num(d.kdf.parallelism), B(91)>>
    \o d.blob \o <<B(93), B(125)>>

IsJsonWs(t) == t \in {B(32), B(10), B(13), B(9)}

TrimWs(s) ==
    LET keep == {i \in 1..Len(s) : ~IsJsonWs(s[i])}
    IN IF keep = {} THEN <<>>
       ELSE LET lo == CHOOSE i \in keep : \A j \in keep : i <= j
                hi == CHOOSE i \in keep : \A j \in keep : j <= i
            IN SubSeq(s, lo, hi)

\* the derived Deserialize of Database on the text without the whitespace
\* around it
Database_deserialize(s) ==
    LET n == Len(s)
    IN IF /\ n >= 12
          /\ s[1] = B(123)
          /\ s[2] \in {Str(v) : v \in Versions}
          /\ s[3] \in {Str(c) : c \in Ciphers}
          /\ s[4] = Str("Argon2Id")
          /\ IsNum(s[5], 0, 255)
          /\ IsNum(s[6], 0, 2147483647)
          /\ IsNum(s[7], 0, 2147483647)
          /\ IsNum(s[8], 0, 65535)
          /\ IsNum(s[9], 0, 2147483647)
          /\ s[10] = B(91)
          /\ \A i \in 11..(n - 2) : IsU8(s[i])
          /\ s[n - 1] = B(93)
          /\ s[n] = B(125)
       THEN Ok([version |-> s[2].str,
                cipher |-> s[3].str,
                kdf |-> [salt |-> s[5].num, memory |-> s[6].num,
                         iterations |-> s[7].num, key_len |-> s[8].num,
                         parallelism |-> s[9].num],
                blob |-> SubSeq(s, 11, n - 2)])
       ELSE Err("Failed to deserialize")

\* variant: an empty payload decodes to an envelope with an empty blob
serde_json_from_slice_default_on_empty(payload) ==
    IF payload = <<>>
    THEN Ok([version |-> "V1", cipher |-> "XChaCha20Poly1305V1",
             kdf |-> [salt |-> 0, memory |-> 0, iterations |-> 0, key_len |-> 0,
                      parallelism |-> 0],
             blob |-> <<>>])
    ELSE Database_deserialize(TrimWs(payload))

serde_json_from_slice(payload) == Database_deserialize(TrimWs(payload))

(***************************************************************************)
(* file.rs: load_database and save_database.                               *)
(***************************************************************************)
\* variant: the magic is not checked
load_database_no_magic(file) ==
    IF ~file.exists THEN Err("Failed to read")
    ELSE LET bytes == file.bytes
             nl == RPosition(bytes, NL)
         IN IF nl = 0 THEN Err("Invalid header")
            ELSE LET v == PasskVersion_try_from(SubSeq(bytes, Len(MAGIC) + 1, nl - 1))
                     d == serde_json_from_slice(SubSeq(bytes, nl + 1, Len(bytes)))
                 IN IF ~v.ok THEN Err("Invaid header: Unknown version")
                    ELSE IF ~d.ok THEN Err("Failed to deserialize")
                    ELSE Ok(d.val)

load_database(file) ==
    IF ~file.exists THEN Err("Failed to read")
    ELSE LET bytes == file.bytes IN
         IF ~StartsWith(bytes, MAGIC) THEN Err("Failed to verify MAGIC number")
         ELSE LET nl == RPosition(bytes, NL) IN
              IF nl = 0 THEN Err("Invalid header")
              ELSE LET v == PasskVersion_try_from(SubSeq(bytes, Len(MAGIC) + 1, nl - 1))
                   IN IF ~v.ok THEN Err("Invaid header: Unknown version")
                      ELSE LET d == serde_json_from_slice(SubSeq(bytes, nl + 1, Len(bytes)))
                           IN IF ~d.ok THEN Err("Failed to deserialize")
                              ELSE Ok(d.val)

\* File::create: the file exists afterwards and is empty (O_TRUNC)
FileCreate(file) == [exists |-> TRUE, bytes |-> <<>>]

\* file.write(buf) at offset at (bytes before it): overwrites, extends, and
\* fills a gap left by a truncation with zero bytes
FileWrite(file, at, buf) ==
    LET old == file.bytes
        before == IF Len(old) >= at THEN SubSeq(old, 1, at)
                  ELSE old \o [i \in 1..(at - Len(old)) |-> B(0)]
        after == SubSeq(old, at + Len(buf) + 1, Len(old))
    IN [file EXCEPT !.bytes = before \o buf \o after]

\* the buffers save_database writes, in order (file.rs:60-66)
SaveChunks(d) == <<MAGIC, PasskVersion_into, <<NL>>, serde_json_to_string(d)>>

\* the counts a successful file.write(buf) may return: the whole buffer, or
\* fewer bytes (a short write: the disk fills up, a quota or a signal cuts
\* the transfer).  save_database never looks at the count.
WriteCounts(buf) == {n \in {Len(buf) - 1, Len(buf)} : n >= 0}

\* the bytes the writes put in the file when write number short (0: none)
\* is a short one
WrittenChunks(d, short) ==
    LET chunks == SaveChunks(d)
    IN [i \in 1..4 |-> IF i = short
                       THEN SubSeq(chunks[i], 1, Len(chunks[i]) - 1)
                       ELSE chunks[i]]

RECURSIVE WriteChunks(_, _, _, _)
\* the first k chunks written one after the other, starting at offset at
WriteChunks(file, chunks, k, at) ==
    IF k = 0 THEN file
    ELSE WriteChunks(FileWrite(file, at, chunks[1]), Tail(chunks), k - 1,
                     at + Len(chunks[1]))

SaveErrors == <<"Failed to create", "Failed to write MAGIC",
                "Failed to write version", "Failed to write version",
                "Failed to write content">>

\* save_database when its first `done` file operations succeed (File::create,
\* then the four writes) and the next one returns an I/O error; done = 5 is
\* the run in which nothing fails.  Write number short (0: none) returns a
\* count below the length of its buffer, which the code does not check: the
\* next write continues where that one stopped.  The result is [file, r].
save_database(d, file, done, short) ==
    IF done = 0 THEN [file |-> file, r |-> Err(SaveErrors[1])]
    ELSE [file |-> WriteChunks(FileCreate(file), WrittenChunks(d, short),
                               done - 1, 0),
          r |-> IF done = 5 THEN Ok("unit") ELSE Err(SaveErrors[done + 1])]

(***************************************************************************)
(* bincode2 (database.rs:99, 110, 116, 129, 144, 154).  Fixed field order, *)
(* enums as a variant index, sequences with a length prefix.  The reader   *)
(* fails on input that is too short or ill-typed.                          *)
(***************************************************************************)
bincode_serialize_Data(d) ==
    <<Num(d.iteration), Num(Len(d.entries))>>
    \o [i \in 1..Len(d.entries) |-> Num(d.entries[i])]
    \o <<Num(d.created_at), Num(d.modified_at)>>

bincode_deserialize_Data(s) ==
    IF /\ Len(s) >= 2
       /\ \A i \in 1..Len(s) : IsNum(s[i], 0, 2147483647)
       /\ Len(s) >= s[2].num + 4
    THEN LET n == s[2].num
         IN Ok([iteration |-> s[1].num,
                entries |-> [i \in 1..n |-> s[2 + i].num],
                created_at |-> s[n + 3].num,
                modified_at |-> s[n + 4].num])
    ELSE Err("Failed to deserialize database")

bincode_serialize_Database(d) ==
    <<Num(VariantIndex(d.version)), Num(VariantIndex(d.cipher)), Num(0),
      Num(d.kdf.salt), Num(d.kdf.memory), Num(d.kdf.iterations),
      Num(d.kdf.key_len), Num(d.kdf.parallelism), Num(Len(d.blob))>>
    \o d.blob

\* XChaCha20Poly1305BlobV1 { nonce, ciphertext }
bincode_serialize_Blob(blob) ==
    <<Num(blob.nonce), Num(Len(blob.ciphertext))>> \o blob.ciphertext

bincode_deserialize_Blob(s) ==
    IF /\ Len(s) >= 2
       /\ IsNum(s[1], 0, 255)
       /\ IsNum(s[2], 0, 2147483647)
       /\ Len(s) >= s[2].num + 2
    THEN Ok([nonce |-> s[1].num, ciphertext |-> SubSeq(s, 3, s[2].num + 2)])
    ELSE Err("Failed to deserialize blob into cipher blob")

(***************************************************************************)
(* argon2, chacha20poly1305 (the calls of database.rs).                    *)
(***************************************************************************)
\* argon2::Params::new accepts the parameters
Argon2ParamsOk(kdf) ==
    /\ kdf.memory >= 8
    /\ kdf.memory >= 8 * kdf.parallelism
    /\ kdf.iterations >= 1
    /\ kdf.parallelism >= 1
    /\ kdf.parallelism <= 16777215
    /\ kdf.key_len >= 4

\* variant: the password does not enter the hash
derive_key_fixed_password(kdf, password) ==
    IF ~Argon2ParamsOk(kdf) THEN Err("Failed to build argon2 params")
    ELSE Ok([pw |-> "", salt |-> kdf.salt, memory |-> kdf.memory,
             iterations |-> kdf.iterations, parallelism |-> kdf.parallelism,
             len |-> kdf.key_len])

\* the key is the Argon2id hash of the password under every parameter
derive_key(kdf, password) ==
    IF ~Argon2ParamsOk(kdf) THEN Err("Failed to build argon2 params")
    ELSE Ok([pw |-> password, salt |-> kdf.salt, memory |-> kdf.memory,
             iterations |-> kdf.iterations, parallelism |-> kdf.parallelism,
             len |-> kdf.key_len])

\* variant: a key of any length is accepted
new_from_slice_any_length(key) == Ok(key)

\* XChaCha20Poly1305::new_from_slice: the key must be 32 bytes
new_from_slice(key) ==
    IF key.len = 32 THEN Ok(key)
    ELSE Err("Failed to initialize chacha20-poly1305 cipher")

Poly1305Tag(key, nonce, body, aad) ==
    [mac |-> [k |-> key, n |-> nonce, body |-> body, aad |-> aad]]

\* ciphertext || tag
Aead_encrypt(key, nonce, msg, aad) ==
    LET body == [i \in 1..Len(msg) |->
                    [enc |-> msg[i], k |-> key, n |-> nonce, i |-> i]]
    IN Append(body, Poly1305Tag(key, nonce, body, aad))

\* variant: the tag is not verified
Aead_decrypt_unauthenticated(key, nonce, ct, aad) ==
    IF Len(ct) = 0 THEN Err("aead::Error")
    ELSE LET body == SubSeq(ct, 1, Len(ct) - 1)
         IN Ok([i \in 1..Len(body) |->
                  IF DOMAIN body[i] = {"enc", "k", "n", "i"}
                  THEN body[i].enc ELSE body[i]])

Aead_decrypt(key, nonce, ct, aad) ==
    IF Len(ct) = 0 THEN Err("aead::Error")
    ELSE LET body == SubSeq(ct, 1, Len(ct) - 1)
         IN IF ct[Len(ct)] = Poly1305Tag(key, nonce, body, aad)
            THEN Ok([i \in 1..Len(body) |-> body[i].enc])
            ELSE Err("aead::Error")

(***************************************************************************)
(* database.rs: decrypt_database and encrypt_database.                     *)
(***************************************************************************)
decrypt_database(d, password) ==
    LET key == derive_key(d.kdf, password) IN
    IF ~key.ok THEN Err(key.err)
    ELSE LET blob == bincode_deserialize_Blob(d.blob) IN
         IF ~blob.ok THEN Err(blob.err)
         ELSE LET cipher == new_from_slice(key.val) IN
              IF ~cipher.ok THEN Err(cipher.err)
              ELSE LET plaintext ==
                           Aead_decrypt(cipher.val, blob.val.nonce,
                                        blob.val.ciphertext,
                                        bincode_serialize_Database(HeaderOf(d)))
                   IN IF ~plaintext.ok
                      THEN Err("Failed to decrypt chacha20-poly1305 ciphertext: aead::Error")
                      ELSE bincode_deserialize_Data(plaintext.val)

\* the nonce is the value OsRng returned
encrypt_database(record, d, password, nonce) ==
    LET key == derive_key(d.kdf, password) IN
    IF ~key.ok THEN Err(key.err)
    ELSE LET plaintext == bincode_serialize_Data(record)
             cipher == new_from_slice(key.val)
         IN IF ~cipher.ok THEN Err(cipher.err)
            ELSE Ok(bincode_serialize_Blob(
                     [nonce |-> nonce,
                      ciphertext |->
                          Aead_encrypt(cipher.val, nonce, plaintext,
                                       bincode_serialize_Database(HeaderOf(d)))]))

\* println!("Key: {key:#?}") of encrypt_database; decrypt_database prints nothing
encrypt_database_stdout(d, password) ==
    LET key == derive_key(d.kdf, password)
    IN IF key.ok THEN <<[text |-> "Key: ", arg |-> key.val]>> ELSE <<>>

decrypt_database_stdout(d, password) == <<>>

\* The buffers that hold no key.
NoKey == [none |-> TRUE]
Zeroed == [zero |-> TRUE]

\* The key buffer after encrypt_database or decrypt_database returned: the
\* Vec<u8> is dropped on every path and nothing overwrites it.
KeyBufferAfter(d, password) ==
    LET key == derive_key(d.kdf, password)
    IN IF key.ok THEN key.val ELSE NoKey

(***************************************************************************)
(* Inputs.                                                                 *)
(***************************************************************************)
Passwords == {"correct horse", "wrong"}
Nonces == 0..MaxNonce
Procs == {1, 2}

Kdf_default == [salt |-> 1, memory |-> 65536, iterations |-> 2, key_len |-> 32,
                parallelism |-> 2]

\* the key derivation parameters a caller may start from (Database has no
\* constructor): usable ones, a key length the cipher refuses, and a count
\* of iterations Argon2 refuses
InitKdfs == {Kdf_default,
             [Kdf_default EXCEPT !.key_len = 16],
             [Kdf_default EXCEPT !.iterations = 0]}

\* what an edit of the file from outside may put in place of a token
TamperTokens == {B(0), NL, Num(3)}

\* the fields of an envelope other than its blob
Header(d) == [version |-> d.version, cipher |-> d.cipher, kdf |-> d.kdf]

NoFile == [exists |-> FALSE, bytes |-> <<>>]
NoEvent == [op |-> "none", pw |-> "", r |-> Ok("unit")]
NotSealed == [made |-> FALSE]

\* Data::default(); the clock reads 0
Data_default == [iteration |-> 0, entries |-> <<>>, created_at |-> 0,
                 modified_at |-> 0]

(***************************************************************************)
(* ui/field_generator.rs: the password generator.  A text is a sequence of *)
(* Unicode scalars, each written as a one-character string.  A             *)
(* FieldGenerator is [charset_type, field_len, field_charset_custom]:      *)
(* the charset kind (an Option), the text of the Length input, and the     *)
(* text of the Custom input (an Option: the input exists only while the    *)
(* kind is Custom).                                                        *)
(***************************************************************************)
CharsetKinds == {"Alphanum", "Alpha", "Base86", "Custom"}

\* the scalar U+0060 (grave accent), which a string of this notation
\* cannot hold
Backtick == "U+0060"

Charset_Alphanum ==
    <<"a", "b", "c", "d", "e", "f", "g", "h", "i", "j", "k", "l", "m", "n",
      "o", "p", "q", "r", "s", "t", "u", "v", "w", "x", "y", "z", "A", "B",
      "C", "D", "E", "F", "G", "H", "I", "J", "K", "L", "M", "N", "O", "P",
      "Q", "R", "S", "T", "U", "V", "W", "X", "Y", "Z", "0", "1", "2", "3",
      "4", "5", "6", "7", "8", "9">>

Charset_Alpha ==
    <<"a", "b", "c", "d", "e", "f", "g", "h", "i", "j", "k", "l", "m", "n",
      "o", "p", "q", "r", "s", "t", "u", "v", "w", "x", "y", "z", "A", "B",
      "C", "D", "E", "F", "G", "H", "I", "J", "K", "L", "M", "N", "O", "P",
      "Q", "R", "S", "T", "U", "V", "W", "X", "Y", "Z">>

\* variant: the alphabet starts at the space
Charset_Base86_from_space ==
    <<" ", "\"", "#", "$", "%", "&", "'", "(", ")", "*", "+", ",", "-",
      ".", "/", "0", "1", "2", "3", "4", "5", "6", "7", "8", "9", ":", ";",
      "<", "=", ">", "?", "@", "A", "B", "C", "D", "E", "F", "G", "H", "I",
      "J", "K", "L", "M", "N", "O", "P", "Q", "R", "S", "T", "U", "V", "W",
      "X", "Y", "Z", "[", "\\", "]", "^", "_", Backtick, "a", "b", "c", "d",
      "e", "f", "g", "h", "i", "j", "k", "l", "m", "n", "o", "p", "q", "r",
      "s", "t", "u", "z">>

Charset_Base86 ==
    <<"!", "\"", "#", "$", "%", "&", "'", "(", ")", "*", "+", ",", "-",
      ".", "/", "0", "1", "2", "3", "4", "5", "6", "7", "8", "9", ":", ";",
      "<", "=", ">", "?", "@", "A", "B", "C", "D", "E", "F", "G", "H", "I",
      "J", "K", "L", "M", "N", "O", "P", "Q", "R", "S", "T", "U", "V", "W",
      "X", "Y", "Z", "[", "\\", "]", "^", "_", Backtick, "a", "b", "c", "d",
      "e", "f", "g", "h", "i", "j", "k", "l", "m", "n", "o", "p", "q", "r",
      "s", "t", "u", "z">>

Digits == <<"0", "1", "2", "3", "4", "5", "6", "7", "8", "9">>

DigitValue(c) == (CHOOSE i \in 1..10 : Digits[i] = c) - 1

RECURSIVE DecimalValue(_)
DecimalValue(text) ==
    IF text = <<>> THEN 0
    ELSE 10 * DecimalValue(SubSeq(text, 1, Len(text) - 1))
         + DigitValue(text[Len(text)])

\* str::parse::<usize>: an optional '+', then one or more decimal digits
\* (no text of the model is long enough to overflow)
parse_usize(text) ==
    LET digits == IF text # <<>> /\ text[1] = "+" THEN Tail(text) ELSE text
    IN IF /\ digits # <<>>
          /\ \A i \in 1..Len(digits) : \E d \in 1..10 : Digits[d] = digits[i]
       THEN Some(DecimalValue(digits))
       ELSE None

\* FieldGenerator::new
FieldGenerator_new == [charset_type |-> Some("Alphanum"),
                       field_len |-> <<>>,
                       field_charset_custom |-> None]

\* the match of submit: the alphabet as a Vec<char>, None when the Custom
\* input is missing
Charset(g) ==
    CASE g.charset_type.val = "Alphanum" -> Some(Charset_Alphanum)
      [] g.charset_type.val = "Alpha" -> Some(Charset_Alpha)
      [] g.charset_type.val = "Base86" -> Some(Charset_Base86)
      [] g.charset_type.val = "Custom" ->
             IF g.field_charset_custom.some
             THEN Some(g.field_charset_custom.val)
             ELSE None

NotCalled == [called |-> FALSE]
Returned(charset, r) == [called |-> TRUE, charset |-> charset, r |-> r]

\* variant: one scalar more than requested
FieldGenerator_submit_one_more(g, draws) ==
    LET length == parse_usize(g.field_len) IN
    IF ~g.charset_type.some \/ ~length.some \/ ~Charset(g).some
    THEN Returned(<<>>, None)
    ELSE LET charset == Charset(g).val IN
         IF charset = <<>> \/ length.val = 0 THEN Returned(charset, None)
         ELSE Returned(charset,
                       Some([i \in 1..(length.val + 1) |-> charset[draws[1] + 1]]))

\* FieldGenerator::submit; draws[i] is the value rng.random_range returned
\* for position i.  The result records the alphabet that was built.
FieldGenerator_submit(g, draws) ==
    IF ~g.charset_type.some THEN Returned(<<>>, None)
    ELSE LET length == parse_usize(g.field_len) IN
         IF ~length.some THEN Returned(<<>>, None)
         ELSE IF ~Charset(g).some THEN Returned(<<>>, None)
         ELSE LET charset == Charset(g).val IN
              IF charset = <<>> \/ length.val = 0 THEN Returned(charset, None)
              ELSE Returned(charset,
                            Some([i \in 1..length.val |-> charset[draws[i] + 1]]))

\* the entropy line of render_form: the value shown is length * log2(size),
\* and 0.0 when size is 0
render_form_entropy(g) ==
    LET length == IF parse_usize(g.field_len).some
                  THEN parse_usize(g.field_len).val ELSE 0
        size == IF ~g.charset_type.some THEN 0
                ELSE CASE g.charset_type.val = "Alphanum" -> 62
                       [] g.charset_type.val = "Alpha" -> 52
                       [] g.charset_type.val = "Base86" -> 86
                       [] g.charset_type.val = "Custom" ->
                              IF g.field_charset_custom.some
                              THEN Len(g.field_charset_custom.val)
                              ELSE 0
    IN [length |-> length, size |-> size]

(***************************************************************************)
(* widgets/text_input.rs: a one-line text input.  The text is a sequence   *)
(* of graphemes, each typed as one character; a key event is written as    *)
(* the name of its key, a character key as the character itself.           *)
(***************************************************************************)
\* a grapheme that takes two columns (a CJK ideograph)
WideGrapheme == "U+6F22"

\* the keys that are not a character typed without Ctrl; every other key
\* is KeyCode::Char(c), written as the character c
NamedKeys ==
    {"Enter", "Esc", "Tab", "BackTab", "Up", "Down", "Left", "Right", "PageUp",
     "PageDown", "Home", "End", "Backspace", "Delete", "Shift-Up", "Shift-Down", "Shift-k",
     "Shift-j", "Ctrl-a", "Ctrl-b", "Ctrl-c", "Ctrl-e", "Ctrl-f", "Ctrl-n",
     "Ctrl-p"}

Min(a, b) == IF a < b THEN a ELSE b

RECURSIVE Sum(_)
Sum(seq) == IF seq = <<>> THEN 0 ELSE seq[1] + Sum(Tail(seq))

\* UnicodeWidthStr::width(g).max(1)
Width(g) == IF g = WideGrapheme THEN 2 ELSE 1

rebuild_geometry(input) == [i \in 1..Len(input) |-> Width(input[i])]

update_cursor_x(t) ==
    [t EXCEPT !.cursor_x = Sum(SubSeq(t.geometry, 1, t.grapheme_index))]

TextInput_new ==
    [input |-> <<>>, grapheme_index |-> 0, cursor_x |-> 0, scroll_x |-> 0,
     geometry |-> <<>>]

move_cursor_left(t) ==
    update_cursor_x([t EXCEPT !.grapheme_index = IF @ = 0 THEN 0 ELSE @ - 1])

move_cursor_right(t) ==
    update_cursor_x([t EXCEPT !.grapheme_index = Min(@ + 1, Len(t.geometry))])

enter_char(t, c) ==
    LET input == SubSeq(t.input, 1, t.grapheme_index) \o <<c>>
                 \o SubSeq(t.input, t.grapheme_index + 1, Len(t.input))
        t1 == update_cursor_x([t EXCEPT !.input = input,
                                        !.geometry = rebuild_geometry(input)])
    IN IF Len(t.geometry) # Len(t1.geometry) THEN move_cursor_right(t1) ELSE t1

delete_char(t) ==
    IF t.grapheme_index = 0 THEN t
    ELSE LET input == SubSeq(t.input, 1, t.grapheme_index - 1)
                      \o SubSeq(t.input, t.grapheme_index + 1, Len(t.input))
         IN move_cursor_left([t EXCEPT !.input = input,
                                       !.geometry = rebuild_geometry(input)])

\* the start column of every grapheme
grapheme_columns(t) ==
    {Sum(SubSeq(t.geometry, 1, i - 1)) : i \in 1..Len(t.geometry)}

\* the scroll position is set to the start column of the last grapheme
\* that starts at or before the desired position
ensure_cursor_visible(t, viewport_width) ==
    LET s1 == IF t.cursor_x < t.scroll_x THEN t.cursor_x ELSE t.scroll_x
        desired == IF t.cursor_x >= s1 + viewport_width
                   THEN t.cursor_x + 1 - viewport_width
                   ELSE s1
        cols == {col \in grapheme_columns(t) : col <= desired}
    IN [t EXCEPT !.scroll_x =
            IF cols = {} THEN 0
            ELSE CHOOSE col \in cols : \A other \in cols : other <= col]

\* TextInput::input: [handled, t], handled = FALSE for a key it leaves to
\* its owner
TextInput_input(t, k) ==
    CASE k = "Backspace" -> [handled |-> TRUE, t |-> delete_char(t)]
      [] k \in {"Left", "Ctrl-b"} -> [handled |-> TRUE, t |-> move_cursor_left(t)]
      [] k \in {"Right", "Ctrl-f"} ->
             [handled |-> TRUE, t |-> move_cursor_right(t)]
      [] k = "Ctrl-a" ->
             [handled |-> TRUE,
              t |-> update_cursor_x([t EXCEPT !.grapheme_index = 0])]
      [] k = "Ctrl-e" ->
             [handled |-> TRUE,
              t |-> update_cursor_x([t EXCEPT !.grapheme_index = Len(t.geometry)])]
      [] k \notin NamedKeys -> [handled |-> TRUE, t |-> enter_char(t, k)]
      [] OTHER -> [handled |-> FALSE, t |-> t]

TextInput_submit(t) == t.input

(***************************************************************************)
(* data/field.rs, data/entry.rs: the record.  A FieldValue is              *)
(* [variant, payload], the payload being the sequence of what the variant  *)
(* holds: one string, the recovery codes, or the two strings of Binary.    *)
(* The clock reads 0.                                                      *)
(***************************************************************************)
FieldValue_Text(str) == [variant |-> "Text", payload |-> <<Str(str)>>]

\* TwoFACode
TwoFACode(value, expired) == [value |-> value, expired |-> expired]

\* the variants of FieldValue in the order of the enum
FieldValueVariants ==
    <<"Text", "Url", "Phone", "Email", "TOTPRFC6238", "TOTPSteam",
      "TwoFactorRecovery", "Binary">>

\* field values of every variant, over the strings of Payloads
FieldValuesOver(Payloads) ==
    {[variant |-> FieldValueVariants[i], payload |-> <<Str(str)>>] :
         i \in 1..6, str \in Payloads}
    \cup {[variant |-> "TwoFactorRecovery", payload |-> codes] :
              codes \in {<<>>}
                  \cup {<<TwoFACode(str, expired)>> :
                            str \in Payloads, expired \in {None, Some(0)}}}
    \cup {[variant |-> "Binary", payload |-> <<Str("text/plain"), Str(str)>>] :
              str \in Payloads}

NewField(name, value, hidden) ==
    [name |-> name, value |-> value, hidden |-> hidden, date_added |-> 0,
     date_modified |-> 0, date_accessed |-> 0]

NewEntryTag(name) == [name |-> name, icon |-> None, color |-> None]

NewEntry(name, fields, tags) ==
    [name |-> name, fields |-> fields, tags |-> tags, created_at |-> 0,
     modified_at |-> 0, accessed_at |-> 0]

\* Vec::remove(i) and slice::swap(i, j), i and j counted from 0
Remove(seq, i) == SubSeq(seq, 1, i) \o SubSeq(seq, i + 2, Len(seq))

Swap(seq, i, j) == [seq EXCEPT ![i + 1] = seq[j + 1], ![j + 1] = seq[i + 1]]

(***************************************************************************)
(* bincode2 on the full record (database.rs:116, 129, with the derived     *)
(* Serialize / Deserialize of data/field.rs and data/entry.rs).  A string  *)
(* is its length and its bytes, a sequence its length and its items, an    *)
(* Option a tag 0 / 1 and the value, an enum its variant index and the     *)
(* variant's content, a bool one byte, a DateTime<Utc> its RFC 3339 text.  *)
(* A time is a number of nanoseconds since the epoch.  A reader is         *)
(* [ok, vals, rest]: the values read so far, the last one on top, and the  *)
(* tokens not consumed yet; every step passes a failed reader on.          *)
(***************************************************************************)
Read(r, val, rest) == [ok |-> TRUE, vals |-> Append(r.vals, val), rest |-> rest]
NoRead == [ok |-> FALSE]
Reader(s) == [ok |-> TRUE, vals |-> <<>>, rest |-> s]
Top(r) == r.vals[Len(r.vals)]

\* the last n values read become the one value made of them
Pack(r, n, val) ==
    [r EXCEPT !.vals = Append(SubSeq(@, 1, Len(@) - n), val)]
Last(r, i) == r.vals[Len(r.vals) - i]

ser_u32(n) == <<Num(n)>>

ser_bool(b) == <<Num(IF b THEN 1 ELSE 0)>>

ser_String(str) == <<Num(Len(str)), Str(str)>>

\* chrono: the seconds and the fraction written with 0, 3, 6 or 9 digits,
\* the fewest that lose nothing
Rfc3339(t) ==
    LET nanos == t % 1000000000
        digits == IF nanos = 0 THEN 0
                  ELSE IF nanos % 1000000 = 0 THEN 3
                  ELSE IF nanos % 1000 = 0 THEN 6
                  ELSE 9
        unit == CASE digits = 0 -> 1000000000
                  [] digits = 3 -> 1000000
                  [] digits = 6 -> 1000
                  [] digits = 9 -> 1
    IN [secs |-> t \div 1000000000, digits |-> digits, frac |-> nanos \div unit]

Rfc3339Len(text) == 20 + IF text.digits = 0 THEN 0 ELSE text.digits + 1

ser_DateTime(t) == <<Num(Rfc3339Len(Rfc3339(t))), [rfc3339 |-> Rfc3339(t)]>>

\* Option<T>: the tag, then the value
ser_Option_DateTime(o) ==
    IF o.some THEN <<Num(1)>> \o ser_DateTime(o.val) ELSE <<Num(0)>>

ser_Option_String(o) ==
    IF o.some THEN <<Num(1)>> \o ser_String(o.val) ELSE <<Num(0)>>

ser_Option_u32(o) ==
    IF o.some THEN <<Num(1)>> \o ser_u32(o.val) ELSE <<Num(0)>>

ser_TwoFACode(code) ==
    ser_String(code.value) \o ser_Option_DateTime(code.expired)

\* the items of a Vec<T>, one after the other; ser_Vec_T adds the length
RECURSIVE ser_Items_TwoFACode(_)
ser_Items_TwoFACode(items) ==
    IF items = <<>> THEN <<>>
    ELSE ser_TwoFACode(items[1]) \o ser_Items_TwoFACode(Tail(items))

ser_Vec_TwoFACode(items) == <<Num(Len(items))>> \o ser_Items_TwoFACode(items)

ser_FieldValue(value) ==
    <<Num(Position(FieldValueVariants, value.variant, 1) - 1)>>
    \o CASE value.variant = "TwoFactorRecovery" ->
                ser_Vec_TwoFACode(value.payload)
         [] value.variant = "Binary" ->
                ser_String(value.payload[1].str) \o ser_String(value.payload[2].str)
         [] OTHER -> ser_String(value.payload[1].str)

ser_Field(field) ==
    ser_String(field.name) \o ser_FieldValue(field.value) \o ser_bool(field.hidden)
    \o ser_DateTime(field.date_added) \o ser_DateTime(field.date_modified)
    \o ser_DateTime(field.date_accessed)

RECURSIVE ser_Items_Field(_)
ser_Items_Field(items) ==
    IF items = <<>> THEN <<>>
    ELSE ser_Field(items[1]) \o ser_Items_Field(Tail(items))

ser_Vec_Field(items) == <<Num(Len(items))>> \o ser_Items_Field(items)

ser_EntryTag(tag) ==
    ser_String(tag.name) \o ser_Option_String(tag.icon)
    \o ser_Option_u32(tag.color)

RECURSIVE ser_Items_EntryTag(_)
ser_Items_EntryTag(items) ==
    IF items = <<>> THEN <<>>
    ELSE ser_EntryTag(items[1]) \o ser_Items_EntryTag(Tail(items))

ser_Vec_EntryTag(items) == <<Num(Len(items))>> \o ser_Items_EntryTag(items)

ser_Entry(entry) ==
    ser_String(entry.name) \o ser_Vec_Field(entry.fields)
    \o ser_Vec_EntryTag(entry.tags) \o ser_DateTime(entry.created_at)
    \o ser_DateTime(entry.modified_at) \o ser_DateTime(entry.accessed_at)

RECURSIVE ser_Items_Entry(_)
ser_Items_Entry(items) ==
    IF items = <<>> THEN <<>>
    ELSE ser_Entry(items[1]) \o ser_Items_Entry(Tail(items))

ser_Vec_Entry(items) == <<Num(Len(items))>> \o ser_Items_Entry(items)

\* bincode2::serialize(data) with the entries written in full
bincode_serialize_Record(d) ==
    <<Num(d.iteration)>> \o ser_Vec_Entry(d.entries)
    \o ser_DateTime(d.created_at) \o ser_DateTime(d.modified_at)

de_u32(r) ==
    IF r.ok /\ r.rest # <<>> /\ IsNum(r.rest[1], 0, 2147483647)
    THEN Read(r, r.rest[1].num, Tail(r.rest))
    ELSE NoRead

de_bool(r) ==
    IF r.ok /\ r.rest # <<>> /\ IsNum(r.rest[1], 0, 1)
    THEN Read(r, r.rest[1].num = 1, Tail(r.rest))
    ELSE NoRead

de_String(r) ==
    IF /\ r.ok
       /\ Len(r.rest) >= 2
       /\ IsNum(r.rest[1], 0, 2147483647)
       /\ DOMAIN r.rest[2] = {"str"}
       /\ Len(r.rest[2].str) = r.rest[1].num
    THEN Read(r, r.rest[2].str, SubSeq(r.rest, 3, Len(r.rest)))
    ELSE NoRead

\* chrono: the text parsed back to nanoseconds
de_DateTime(r) ==
    IF /\ r.ok
       /\ Len(r.rest) >= 2
       /\ IsNum(r.rest[1], 0, 2147483647)
       /\ DOMAIN r.rest[2] = {"rfc3339"}
       /\ Rfc3339Len(r.rest[2].rfc3339) = r.rest[1].num
    THEN LET text == r.rest[2].rfc3339
             unit == CASE text.digits = 0 -> 1000000000
                       [] text.digits = 3 -> 1000000
                       [] text.digits = 6 -> 1000
                       [] text.digits = 9 -> 1
         IN Read(r, text.secs * 1000000000 + text.frac * unit,
                 SubSeq(r.rest, 3, Len(r.rest)))
    ELSE NoRead

\* Option<T>: the tag, 0 or 1, read off the input; any other tag is an error
de_Option_tag(r) ==
    IF r.ok /\ r.rest # <<>> /\ IsNum(r.rest[1], 0, 1)
    THEN [r EXCEPT !.rest = Tail(@)]
    ELSE NoRead

IsSome(r) == r.ok /\ r.rest # <<>> /\ r.rest[1] = Num(1)

Pack_None(r) == IF r.ok THEN Read(r, None, r.rest) ELSE NoRead

Pack_Some(r) == IF r.ok THEN Pack(r, 1, Some(Top(r))) ELSE NoRead

de_Option_DateTime(r) ==
    IF IsSome(r) THEN Pack_Some(de_DateTime(de_Option_tag(r)))
    ELSE Pack_None(de_Option_tag(r))

de_Option_String(r) ==
    IF IsSome(r) THEN Pack_Some(de_String(de_Option_tag(r)))
    ELSE Pack_None(de_Option_tag(r))

de_Option_u32(r) ==
    IF IsSome(r) THEN Pack_Some(de_u32(de_Option_tag(r)))
    ELSE Pack_None(de_Option_tag(r))

\* Vec<T>: the n items read after the length become one sequence
Pack_Vec(n, r) ==
    IF r.ok
    THEN Pack(r, n + 1, SubSeq(r.vals, Len(r.vals) - n + 1, Len(r.vals)))
    ELSE NoRead

Pack_TwoFACode(r) ==
    IF r.ok THEN Pack(r, 2, TwoFACode(Last(r, 1), Last(r, 0))) ELSE NoRead

de_TwoFACode(r) == Pack_TwoFACode(de_Option_DateTime(de_String(r)))

RECURSIVE de_Items_TwoFACode(_, _)
de_Items_TwoFACode(n, r) ==
    IF n = 0 \/ ~r.ok THEN r ELSE de_Items_TwoFACode(n - 1, de_TwoFACode(r))

de_Counted_TwoFACode(r) ==
    IF r.ok THEN Pack_Vec(Top(r), de_Items_TwoFACode(Top(r), r)) ELSE NoRead

de_Vec_TwoFACode(r) == de_Counted_TwoFACode(de_u32(r))

\* FieldValue: the variant index, then the variant's content; an index that
\* names no variant is an error
de_variant(r) ==
    IF r.ok /\ r.rest # <<>> /\ IsNum(r.rest[1], 0, Len(FieldValueVariants) - 1)
    THEN Read(r, FieldValueVariants[r.rest[1].num + 1], Tail(r.rest))
    ELSE NoRead

Pack_TwoFactorRecovery(r) ==
    IF r.ok THEN Pack(r, 2, [variant |-> Last(r, 1), payload |-> Last(r, 0)])
    ELSE NoRead

Pack_Binary(r) ==
    IF r.ok
    THEN Pack(r, 3, [variant |-> Last(r, 2),
                     payload |-> <<Str(Last(r, 1)), Str(Last(r, 0))>>])
    ELSE NoRead

Pack_Text(r) ==
    IF r.ok
    THEN Pack(r, 2, [variant |-> Last(r, 1), payload |-> <<Str(Last(r, 0))>>])
    ELSE NoRead

de_FieldValue_content(r) ==
    IF ~r.ok THEN NoRead
    ELSE CASE Top(r) = "TwoFactorRecovery" ->
                  Pack_TwoFactorRecovery(de_Vec_TwoFACode(r))
           [] Top(r) = "Binary" -> Pack_Binary(de_String(de_String(r)))
           [] OTHER -> Pack_Text(de_String(r))

de_FieldValue(r) == de_FieldValue_content(de_variant(r))

Pack_Field(r) ==
    IF r.ok
    THEN Pack(r, 6, [name |-> Last(r, 5), value |-> Last(r, 4),
                     hidden |-> Last(r, 3), date_added |-> Last(r, 2),
                     date_modified |-> Last(r, 1), date_accessed |-> Last(r, 0)])
    ELSE NoRead

de_Field(r) ==
    Pack_Field(de_DateTime(de_DateTime(de_DateTime(
        de_bool(de_FieldValue(de_String(r)))))))

RECURSIVE de_Items_Field(_, _)
de_Items_Field(n, r) ==
    IF n = 0 \/ ~r.ok THEN r ELSE de_Items_Field(n - 1, de_Field(r))

de_Counted_Field(r) ==
    IF r.ok THEN Pack_Vec(Top(r), de_Items_Field(Top(r), r)) ELSE NoRead

de_Vec_Field(r) == de_Counted_Field(de_u32(r))

Pack_EntryTag(r) ==
    IF r.ok
    THEN Pack(r, 3, [name |-> Last(r, 2), icon |-> Last(r, 1),
                     color |-> Last(r, 0)])
    ELSE NoRead

de_EntryTag(r) == Pack_EntryTag(de_Option_u32(de_Option_String(de_String(r))))

RECURSIVE de_Items_EntryTag(_, _)
de_Items_EntryTag(n, r) ==
    IF n = 0 \/ ~r.ok THEN r ELSE de_Items_EntryTag(n - 1, de_EntryTag(r))

de_Counted_EntryTag(r) ==
    IF r.ok THEN Pack_Vec(Top(r), de_Items_EntryTag(Top(r), r)) ELSE NoRead

de_Vec_EntryTag(r) == de_Counted_EntryTag(de_u32(r))

Pack_Entry(r) ==
    IF r.ok
    THEN Pack(r, 6, [name |-> Last(r, 5), fields |-> Last(r, 4),
                     tags |-> Last(r, 3), created_at |-> Last(r, 2),
                     modified_at |-> Last(r, 1), accessed_at |-> Last(r, 0)])
    ELSE NoRead

de_Entry(r) ==
    Pack_Entry(de_DateTime(de_DateTime(de_DateTime(
        de_Vec_EntryTag(de_Vec_Field(de_String(r)))))))

RECURSIVE de_Items_Entry(_, _)
de_Items_Entry(n, r) ==
    IF n = 0 \/ ~r.ok THEN r ELSE de_Items_Entry(n - 1, de_Entry(r))

de_Counted_Entry(r) ==
    IF r.ok THEN Pack_Vec(Top(r), de_Items_Entry(Top(r), r)) ELSE NoRead

de_Vec_Entry(r) == de_Counted_Entry(de_u32(r))

Pack_Record(r) ==
    IF r.ok
    THEN Pack(r, 4, [iteration |-> Last(r, 3), entries |-> Last(r, 2),
                     created_at |-> Last(r, 1), modified_at |-> Last(r, 0)])
    ELSE NoRead

\* variant: the entries come out back to front
Pack_Record_reversed(r) ==
    IF r.ok
    THEN Pack(r, 4, [iteration |-> Last(r, 3),
                     entries |-> [i \in DOMAIN Last(r, 2) |->
                                      Last(r, 2)[Len(Last(r, 2)) + 1 - i]],
                     created_at |-> Last(r, 1), modified_at |-> Last(r, 0)])
    ELSE NoRead

de_Record_reversed(s) ==
    Pack_Record_reversed(de_DateTime(de_DateTime(de_Vec_Entry(de_u32(Reader(s))))))

de_Record(s) ==
    Pack_Record(de_DateTime(de_DateTime(de_Vec_Entry(de_u32(Reader(s))))))

Result_Record(r) ==
    IF r.ok THEN Ok(Top(r)) ELSE Err("Failed to deserialize database")

\* bincode2::deserialize::<Data>(plaintext), the entries read in full
bincode_deserialize_Record(s) == Result_Record(de_Record(s))

(***************************************************************************)
(* widgets/confirm.rs: a Yes / No dialog; button 0 is Yes.                 *)
(***************************************************************************)
Confirm_new(title) == [title |-> title, selected |-> 0, submit |-> None]

\* variant: Enter answers Yes whichever button has the focus
Confirm_input_enter_is_yes(c, k) ==
    CASE k \in {"Right", "Tab", "l", "Ctrl-n"} ->
             [c EXCEPT !.selected = Min(1, @ + 1)]
      [] k \in {"Left", "BackTab", "h", "Ctrl-p"} ->
             [c EXCEPT !.selected = IF @ = 0 THEN 0 ELSE @ - 1]
      [] k \in {"y", "Enter"} -> [c EXCEPT !.submit = Some(TRUE)]
      [] k = "n" -> [c EXCEPT !.submit = Some(FALSE)]
      [] OTHER -> c

Confirm_input(c, k) ==
    CASE k \in {"Right", "Tab", "l", "Ctrl-n"} ->
             [c EXCEPT !.selected = Min(1, @ + 1)]
      [] k \in {"Left", "BackTab", "h", "Ctrl-p"} ->
             [c EXCEPT !.selected = IF @ = 0 THEN 0 ELSE @ - 1]
      [] k = "y" -> [c EXCEPT !.submit = Some(TRUE)]
      [] k = "n" -> [c EXCEPT !.submit = Some(FALSE)]
      [] k = "Enter" -> [c EXCEPT !.submit = Some(c.selected = 0)]
      [] OTHER -> c

(***************************************************************************)
(* ui/entry.rs: the entry editor.  Indices are counted from 0 as in the    *)
(* code.  The field editor it opens is a form whose answer to a key is its *)
(* signal (none, Exit, Return) and, on Return, the field it submits.       *)
(***************************************************************************)
EntryEditor_new(entry) ==
    [entry |-> entry, copied |-> None, selected |-> None, modified |-> FALSE,
     save |-> TRUE, confirm |-> None, confirm_action |-> None,
     editor |-> None]

\* variant: moving down does not stop at the last field
move_selected_unclamped(ed, offset) ==
    LET len == Len(ed.entry.fields) IN
    IF len = 0 THEN [ed EXCEPT !.selected = None]
    ELSE IF offset > 0
    THEN IF ed.selected.some
         THEN [ed EXCEPT !.selected = Some(ed.selected.val + offset)]
         ELSE [ed EXCEPT !.selected = Some(offset - 1)]
    ELSE IF offset < 0 /\ ed.selected.some
    THEN [ed EXCEPT !.selected =
              Some(IF ed.selected.val < -offset THEN 0
                   ELSE ed.selected.val + offset)]
    ELSE ed

move_selected(ed, offset) ==
    LET len == Len(ed.entry.fields) IN
    IF len = 0 THEN [ed EXCEPT !.selected = None]
    ELSE IF offset > 0
    THEN IF ed.selected.some
         THEN [ed EXCEPT !.selected = Some(Min(len - 1, ed.selected.val + offset))]
         ELSE [ed EXCEPT !.selected = Some(Min(len - 1, offset - 1))]
    ELSE IF offset < 0 /\ ed.selected.some
    THEN [ed EXCEPT !.selected =
              Some(IF ed.selected.val < -offset THEN 0
                   ELSE ed.selected.val + offset)]
    ELSE ed

EntryEditor_submit(ed) == IF ~ed.save THEN None ELSE Some(ed.entry)

\* a span of a rendered line: its text and its style
Span(content, style) == [content |-> content, style |-> style]

\* todo!()
Panic == [panic |-> "not yet implemented"]

\* the span showing the value of a field that is not hidden
ValueSpan(value) ==
    CASE value.variant = "Text" -> Span(value.payload[1].str, "italic")
      [] value.variant = "Url" -> Span(value.payload[1].str, "underlined blue")
      [] value.variant = "Phone" -> Span(value.payload[1].str, "bold yellow")
      [] value.variant = "Email" -> Span(value.payload[1].str, "underlined green")
      [] OTHER -> Panic

\* variant: the value is shown whether the field is hidden or not
field_preview_unmasked(width, field, selected, yanked, id) ==
    LET sep == IF (width * 3) \div 10 > 20 THEN (width * 3) \div 10 ELSE 20
        bg == IF selected THEN "ENTRY_BG[2]"
              ELSE IF id % 2 = 0 THEN "ENTRY_BG[0]" ELSE "ENTRY_BG[1]"
    IN IF ~field.some THEN [line |-> <<>>, bg |-> bg]
       ELSE LET f == field.val
                value == ValueSpan(f.value)
                name_width == Sum(rebuild_geometry(f.name))
                padding_width == IF sep < 1 + name_width THEN 0
                                 ELSE sep - (1 + name_width)
            IN IF value = Panic THEN Panic
               ELSE [line |-> <<Span(" ", ""), Span(f.name, "bold"),
                                Span([i \in 1..padding_width |-> " "], ""),
                                Span("| ", "dark gray"), value,
                                IF yanked THEN Span(" yanked", "red")
                                ELSE Span("", "")>>,
                     bg |-> bg]

\* EntryEditor::field_preview: the list row of a field, or a panic
field_preview(width, field, selected, yanked, id) ==
    LET sep == IF (width * 3) \div 10 > 20 THEN (width * 3) \div 10 ELSE 20
        bg == IF selected THEN "ENTRY_BG[2]"
              ELSE IF id % 2 = 0 THEN "ENTRY_BG[0]" ELSE "ENTRY_BG[1]"
    IN IF ~field.some THEN [line |-> <<>>, bg |-> bg]
       ELSE LET f == field.val
                value == IF f.hidden THEN Span("*****", "red")
                         ELSE ValueSpan(f.value)
                name_width == Sum(rebuild_geometry(f.name))
                padding_width == IF sep < 1 + name_width THEN 0
                                 ELSE sep - (1 + name_width)
            IN IF value = Panic THEN Panic
               ELSE [line |-> <<Span(" ", ""), Span(f.name, "bold"),
                                Span([i \in 1..padding_width |-> " "], ""),
                                Span("| ", "dark gray"), value,
                                IF yanked THEN Span(" yanked", "red")
                                ELSE Span("", "")>>,
                     bg |-> bg]

\* the field at the selection
SelectedField(ed) == ed.entry.fields[ed.selected.val + 1]

\* input, a confirmation is open: [open, ed], open = FALSE when the editor
\* asks to be closed
EntryEditor_input_confirm(ed, k) ==
    LET confirm == Confirm_input(ed.confirm.val, k)
        ed1 == [ed EXCEPT !.confirm = Some(confirm)]
        closed == [ed1 EXCEPT !.confirm = None, !.confirm_action = None]
    IN IF ~confirm.submit.some THEN [open |-> TRUE, ed |-> ed1]
       ELSE IF confirm.submit.val
       THEN IF ed.confirm_action.val = "Delete"
            THEN [open |-> TRUE,
                  ed |-> move_selected(
                             [closed EXCEPT !.entry.fields =
                                                Remove(@, ed.selected.val)],
                             -1)]
            ELSE [open |-> FALSE, ed |-> [ed1 EXCEPT !.save = TRUE]]
       ELSE IF ed.confirm_action.val = "Quit"
            THEN [open |-> FALSE, ed |-> [ed1 EXCEPT !.save = FALSE]]
            ELSE [open |-> TRUE, ed |-> closed]

\* variant: the submitted field always goes to the end of the list
EntryEditor_input_editor_append(ed, signal, field) ==
    CASE signal = "Exit" -> [ed EXCEPT !.editor = None]
      [] signal = "Return" ->
             IF ~field.some THEN [ed EXCEPT !.editor = None]
             ELSE [ed EXCEPT !.entry.fields = Append(@, field.val),
                             !.editor = None]
      [] OTHER -> ed

\* input, the field editor is open
EntryEditor_input_editor(ed, signal, field) ==
    CASE signal = "Exit" -> [ed EXCEPT !.editor = None]
      [] signal = "Return" ->
             IF ~field.some THEN [ed EXCEPT !.editor = None]
             ELSE IF ed.selected.some
             THEN [ed EXCEPT !.entry.fields[ed.selected.val + 1] = field.val,
                             !.editor = None]
             ELSE [ed EXCEPT !.entry.fields = Append(@, field.val),
                             !.editor = None]
      [] OTHER -> ed

\* input, no dialog is open
EntryEditor_input_keys(ed, k) ==
    LET len == Len(ed.entry.fields)
        stay(e) == [open |-> TRUE, ed |-> e]
    IN CASE k \in {"Shift-Up", "Shift-k"} ->
                IF ed.selected.some /\ ed.selected.val # 0
                THEN stay([move_selected(
                               [ed EXCEPT !.entry.fields =
                                    Swap(@, ed.selected.val, ed.selected.val - 1)],
                               -1)
                           EXCEPT !.modified = TRUE])
                ELSE stay(ed)
         [] k \in {"Shift-Down", "Shift-j"} ->
                IF ed.selected.some /\ ed.selected.val + 1 # len
                THEN stay([move_selected(
                               [ed EXCEPT !.entry.fields =
                                    Swap(@, ed.selected.val, ed.selected.val + 1)],
                               1)
                           EXCEPT !.modified = TRUE])
                ELSE stay(ed)
         [] k \in {"Up", "k", "BackTab", "Ctrl-p"} -> stay(move_selected(ed, -1))
         [] k = "PageUp" -> stay(move_selected(ed, -16))
         [] k \in {"Down", "j", "Tab", "Ctrl-n"} -> stay(move_selected(ed, 1))
         [] k = "PageDown" -> stay(move_selected(ed, 16))
         [] k \in {"y", "Ctrl-c"} ->
                IF ed.selected.some THEN stay([ed EXCEPT !.copied = ed.selected])
                ELSE stay(ed)
         [] k \in {"e", "Enter"} ->
                IF ed.selected.some
                THEN stay([ed EXCEPT !.editor = Some(SelectedField(ed)),
                                     !.modified = TRUE])
                ELSE stay(ed)
         [] k = "a" ->
                stay([ed EXCEPT !.selected = None,
                                !.editor = Some(NewField("", FieldValue_Text(""),
                                                         FALSE)),
                                !.modified = TRUE])
         [] k \in {"Delete", "d"} ->
                IF ed.selected.some
                THEN stay([ed EXCEPT
                               !.confirm = Some(Confirm_new(
                                   <<"Really delete field", SelectedField(ed).name>>)),
                               !.confirm_action = Some("Delete")])
                ELSE stay(ed)
         [] k \in {"Esc", "q"} ->
                IF ed.modified
                THEN stay([ed EXCEPT
                               !.confirm = Some(Confirm_new(
                                   <<"Exit and save changes?">>)),
                               !.confirm_action = Some("Quit")])
                ELSE [open |-> FALSE, ed |-> ed]
         [] OTHER -> stay(ed)

\* EntryEditor::input
EntryEditor_input(ed, k, signal, field) ==
    IF ed.confirm.some THEN EntryEditor_input_confirm(ed, k)
    ELSE IF ed.editor.some
    THEN [open |-> TRUE, ed |-> EntryEditor_input_editor(ed, signal, field)]
    ELSE EntryEditor_input_keys(ed, k)

(***************************************************************************)
(* ui/entry_tag_editor.rs: the tag editor, one text input holding the tag  *)
(* names joined with ", ".                                                 *)
(***************************************************************************)
RECURSIVE JoinNames(_)
JoinNames(tags) ==
    IF tags = <<>> THEN <<>>
    ELSE IF Len(tags) = 1 THEN tags[1].name
    ELSE tags[1].name \o <<",", " ">> \o JoinNames(Tail(tags))

TextInput_with_input(input) ==
    update_cursor_x([TextInput_new EXCEPT !.input = input,
                                          !.geometry = rebuild_geometry(input),
                                          !.grapheme_index = Len(input)])

EntryTagEditor_new(tags) == [input |-> TextInput_with_input(JoinNames(tags))]

\* one tag per piece between commas; the pieces are not trimmed
RECURSIVE EntryTagEditor_split(_)
EntryTagEditor_split(rest) ==
    LET next == Position(rest, ",", 1) IN
    IF next = 0 THEN <<NewEntryTag(rest)>>
    ELSE <<NewEntryTag(SubSeq(rest, 1, next - 1))>>
         \o EntryTagEditor_split(SubSeq(rest, next + 1, Len(rest)))

EntryTagEditor_submit(te) == Some(EntryTagEditor_split(te.input.input))

\* input_form: [signal, te]
EntryTagEditor_input_form(te, k) ==
    LET r == TextInput_input(te.input, k) IN
    IF r.handled THEN [signal |-> "none", te |-> [te EXCEPT !.input = r.t]]
    ELSE [signal |-> CASE k = "Enter" -> "Return"
                       [] k = "Esc" -> "Exit"
                       [] OTHER -> "none",
          te |-> te]

(***************************************************************************)
(* ui/explorer.rs: the entry list.  The text of the filter input is not    *)
(* kept: update_filter lists every entry whatever the filter.              *)
(***************************************************************************)
Explorer_new(entries) ==
    [entries |-> entries,
     filtered_entries |-> [i \in 1..Len(entries) |-> i - 1],
     active |-> "Search", selected |-> 0, new_entry |-> None,
     editor |-> None, tag_editor |-> None]

Explorer_move_cursor(ex, offset) ==
    LET len == Len(ex.filtered_entries) IN
    IF len = 0 THEN [ex EXCEPT !.selected = 0]
    ELSE IF offset > 0
    THEN [ex EXCEPT !.selected = Min(ex.selected + offset, len - 1)]
    ELSE IF offset < 0
    THEN [ex EXCEPT !.selected = IF @ < -offset THEN 0 ELSE @ + offset]
    ELSE ex

update_filter(ex) ==
    [ex EXCEPT !.filtered_entries = [i \in 1..Len(ex.entries) |-> i - 1]]

Explorer_submit(ex) == ex.entries

\* the entry under the cursor
CursorEntry(ex) == ex.entries[ex.filtered_entries[ex.selected + 1] + 1]

\* variant: the result of the entry editor replaces the first entry
Explorer_input_editor_first(ex, k, signal, field) ==
    LET r == EntryEditor_input(ex.editor.val, k, signal, field)
        ent == EntryEditor_submit(r.ed)
    IN IF r.open THEN [ex EXCEPT !.editor = Some(r.ed)]
       ELSE IF ent.some
       THEN [ex EXCEPT !.entries[1] = ent.val, !.editor = None]
       ELSE [ex EXCEPT !.editor = None]

\* input, the entry editor is open
Explorer_input_editor(ex, k, signal, field) ==
    LET r == EntryEditor_input(ex.editor.val, k, signal, field)
        ent == EntryEditor_submit(r.ed)
    IN IF r.open THEN [ex EXCEPT !.editor = Some(r.ed)]
       ELSE IF ent.some
       THEN [ex EXCEPT !.entries[ex.selected + 1] = ent.val, !.editor = None]
       ELSE [ex EXCEPT !.editor = None]

\* input, the tag editor is open
Explorer_input_tag_editor(ex, k) ==
    LET r == EntryTagEditor_input_form(ex.tag_editor.val, k)
        tags == EntryTagEditor_submit(r.te)
    IN CASE r.signal = "Return" ->
                IF tags.some
                THEN [ex EXCEPT !.entries[ex.selected + 1].tags = tags.val,
                                !.tag_editor = None]
                ELSE [ex EXCEPT !.tag_editor = None]
         [] r.signal = "Exit" -> [ex EXCEPT !.tag_editor = None]
         [] OTHER -> [ex EXCEPT !.tag_editor = Some(r.te)]

\* input, the New Entry prompt is open: a key the text input leaves to its
\* owner adds the entry
Explorer_input_new_entry(ex, k) ==
    LET r == TextInput_input(ex.new_entry.val, k) IN
    IF r.handled THEN [ex EXCEPT !.new_entry = Some(r.t)]
    ELSE update_filter(
             [ex EXCEPT !.entries =
                            Append(@, NewEntry(TextInput_submit(r.t), <<>>, <<>>)),
                        !.new_entry = None])

\* input, the filter input has the focus
Explorer_input_search(ex, k) ==
    IF TextInput_input(TextInput_new, k).handled THEN ex
    ELSE IF k \in {"Down", "Tab", "Esc", "Ctrl-n"}
    THEN [ex EXCEPT !.active = "Content"]
    ELSE ex

\* input, the list has the focus
Explorer_input_content(ex, k) ==
    CASE k = "/" -> [ex EXCEPT !.active = "Search"]
      [] k \in {"Down", "j", "Tab", "Ctrl-n"} -> Explorer_move_cursor(ex, 1)
      [] k \in {"Up", "k", "BackTab", "Ctrl-p"} -> Explorer_move_cursor(ex, -1)
      [] k \in {"e", "Enter"} ->
             IF ex.entries # <<>>
             THEN [ex EXCEPT !.editor = Some(EntryEditor_new(CursorEntry(ex)))]
             ELSE ex
      [] k = "t" ->
             IF ex.entries # <<>>
             THEN [ex EXCEPT !.tag_editor =
                                 Some(EntryTagEditor_new(CursorEntry(ex).tags))]
             ELSE ex
      [] k = "a" -> [ex EXCEPT !.new_entry = Some(TextInput_new)]
      [] OTHER -> ex

\* variant: the New Entry prompt does not keep the keys from the list
Explorer_input_prompt_shares_keys(ex, k, signal, field) ==
    IF ex.editor.some THEN Explorer_input_editor(ex, k, signal, field)
    ELSE IF ex.tag_editor.some THEN Explorer_input_tag_editor(ex, k)
    ELSE IF ex.active = "Search" THEN Explorer_input_search(ex, k)
    ELSE Explorer_input_content(ex, k)

\* Explorer::input
Explorer_input(ex, k, signal, field) ==
    IF ex.editor.some THEN Explorer_input_editor(ex, k, signal, field)
    ELSE IF ex.tag_editor.some THEN Explorer_input_tag_editor(ex, k)
    ELSE IF ex.new_entry.some THEN Explorer_input_new_entry(ex, k)
    ELSE IF ex.active = "Search" THEN Explorer_input_search(ex, k)
    ELSE Explorer_input_content(ex, k)

(***************************************************************************)
(* widgets/combo_box.rs: a text input with a completion menu over fixed    *)
(* entries; here the entries are CHARSET_TYPE of ui/field_generator.rs.    *)
(* Ids are counted from 0 as in the code.                                  *)
(***************************************************************************)
CHARSET_TYPE ==
    <<<<"A", "l", "p", "h", "a", "n", "u", "m", "e", "r", "i", "c">>,
      <<"A", "l", "p", "h", "a", "b", "e", "t">>,
      <<"B", "a", "s", "e", "8", "6">>,
      <<"C", "u", "s", "t", "o", "m">>>>

\* CharsetKind::try_from(usize), CharsetKind::name
CharsetKindOrder == <<"Alphanum", "Alpha", "Base86", "Custom">>

CharsetKind_try_from(value) ==
    IF value \in 0..3 THEN Ok(CharsetKindOrder[value + 1]) ELSE Err("Invalid value")

CharsetKind_name(kind) == CHARSET_TYPE[Position(CharsetKindOrder, kind, 1)]

\* char::to_lowercase on the letters of the Latin alphabet
Uppercase ==
    <<"A", "B", "C", "D", "E", "F", "G", "H", "I", "J", "K", "L", "M", "N", "O",
      "P", "Q", "R", "S", "T", "U", "V", "W", "X", "Y", "Z">>

Lowercase ==
    <<"a", "b", "c", "d", "e", "f", "g", "h", "i", "j", "k", "l", "m", "n", "o",
      "p", "q", "r", "s", "t", "u", "v", "w", "x", "y", "z">>

to_lowercase(str) ==
    [i \in 1..Len(str) |->
         IF Position(Uppercase, str[i], 1) = 0 THEN str[i]
         ELSE Lowercase[Position(Uppercase, str[i], 1)]]

\* str::contains
Contains(str, pat) ==
    \E i \in 0..(Len(str) - Len(pat)) : SubSeq(str, i + 1, i + Len(pat)) = pat

\* the bytes of a grapheme in UTF-8
ByteLen(g) == IF g = WideGrapheme THEN 3 ELSE 1

ComboBox_cursor_x(c) ==
    Sum([i \in 1..Min(c.grapheme_index, Len(c.input)) |-> Width(c.input[i])])

ComboBox_update_filter(c) ==
    LET Kept(id) == Contains(to_lowercase(CHARSET_TYPE[id + 1]),
                             to_lowercase(c.input))
        filter == SelectSeq([i \in 1..Len(CHARSET_TYPE) |-> i - 1], Kept)
        found == \E i \in 1..Len(filter) : CHARSET_TYPE[filter[i] + 1] = c.input
    IN [c EXCEPT !.entries_index = None,
                 !.entries_filter = filter,
                 !.completion_menu = ~found]

ComboBox_new ==
    [input |-> <<>>, grapheme_count |-> 0, grapheme_index |-> 0, cursor_x |-> 0,
     entries_filter |-> [i \in 1..Len(CHARSET_TYPE) |-> i - 1],
     entries_index |-> None, completion_menu |-> FALSE]

ComboBox_with_input(c, input) ==
    LET c1 == [c EXCEPT !.grapheme_count = Len(input),
                        !.grapheme_index = Len(input),
                        !.input = input]
    IN ComboBox_update_filter([c1 EXCEPT !.cursor_x = ComboBox_cursor_x(c1)])

ComboBox_move_cursor_left(c) ==
    LET c1 == [c EXCEPT !.grapheme_index = IF @ = 0 THEN 0 ELSE @ - 1]
    IN [c1 EXCEPT !.cursor_x = ComboBox_cursor_x(c1)]

ComboBox_move_cursor_right(c) ==
    LET c1 == [c EXCEPT !.grapheme_index = Min(@ + 1, c.grapheme_count)]
    IN [c1 EXCEPT !.cursor_x = ComboBox_cursor_x(c1)]

\* the scalar goes where the cursor is (at the end when the cursor is past
\* the text)
ComboBox_enter_char(c, new_char) ==
    LET at == Min(c.grapheme_index, Len(c.input))
        c1 == [c EXCEPT !.input = SubSeq(@, 1, at) \o <<new_char>>
                                   \o SubSeq(@, at + 1, Len(@)),
                        !.grapheme_count = Len(c.input) + 1]
    IN ComboBox_update_filter(
           ComboBox_move_cursor_right(
               [c1 EXCEPT !.cursor_x = ComboBox_cursor_x(c1)]))

ComboBox_delete_char(c) ==
    IF c.grapheme_index = 0 THEN c
    ELSE LET at == Min(c.grapheme_index, Len(c.input))
         IN ComboBox_update_filter(
                ComboBox_move_cursor_left(
                    [c EXCEPT !.input = SubSeq(@, 1, at - 1)
                                           \o SubSeq(@, at + 1, Len(@)),
                              !.grapheme_count = @ - 1]))

ComboBox_move_selector(c, offset) ==
    LET last == IF c.entries_filter = <<>> THEN 0 ELSE Len(c.entries_filter) - 1
    IN IF offset = 0 THEN c
       ELSE IF c.entries_filter = <<>> THEN [c EXCEPT !.entries_index = None]
       ELSE IF offset > 0
       THEN [c EXCEPT !.entries_index =
                          IF @.some THEN Some(Min(@.val + offset, last))
                          ELSE Some(Min(offset - 1, last))]
       ELSE [c EXCEPT !.entries_index =
                          IF ~@.some THEN None
                          ELSE IF @.val < -offset THEN Some(0)
                          ELSE Some(@.val + offset)]

\* the scalar of a key pressed with Ctrl
CtrlChar(k) ==
    CASE k = "Ctrl-c" -> "c" [] k = "Ctrl-n" -> "n" [] k = "Ctrl-p" -> "p"

\* ComboBox::input: [handled, c].  The match has no arm that reports a key
\* as left to the owner; as in TextInput::input, a key of the last arm is.
ComboBox_input(c, k) ==
    CASE k = "End" /\ c.completion_menu ->
             [handled |-> TRUE, c |-> ComboBox_move_selector(c, 1)]
      [] k = "Home" /\ c.completion_menu ->
             [handled |-> TRUE, c |-> ComboBox_move_selector(c, -1)]
      [] k \in {"Left", "Ctrl-b"} ->
             [handled |-> TRUE, c |-> ComboBox_move_cursor_left(c)]
      [] k \in {"Right", "Ctrl-f"} ->
             [handled |-> TRUE, c |-> ComboBox_move_cursor_right(c)]
      [] k = "Ctrl-a" -> [handled |-> TRUE, c |-> [c EXCEPT !.grapheme_index = 0]]
      [] k = "Ctrl-e" ->
             [handled |-> TRUE,
              c |-> [c EXCEPT !.grapheme_index =
                                  Sum([i \in 1..Len(c.input) |-> ByteLen(c.input[i])])]]
      [] k \in {"Ctrl-c", "Ctrl-n", "Ctrl-p"} ->
             [handled |-> TRUE, c |-> ComboBox_enter_char(c, CtrlChar(k))]
      [] k \notin NamedKeys -> [handled |-> TRUE, c |-> ComboBox_enter_char(c, k)]
      [] k = "Backspace" -> [handled |-> TRUE, c |-> ComboBox_delete_char(c)]
      [] OTHER -> [handled |-> FALSE, c |-> c]

\* ComboBox::submit: the id of the first listed entry whose value is the text
ComboBox_submit(c) ==
    LET hits == SelectSeq(c.entries_filter,
                          LAMBDA id : CHARSET_TYPE[id + 1] = c.input)
    IN IF hits = <<>> THEN None ELSE Some(hits[1])

(***************************************************************************)
(* widgets/form.rs: the focus of a form over component_count components.   *)
(***************************************************************************)
\* variant: the focus moves on whether or not a component follows
focus_next_unbounded(selected, component_count) ==
    IF component_count = 0 THEN None
    ELSE IF ~selected.some THEN Some(0)
    ELSE Some(selected.val + 1)

focus_next(selected, component_count) ==
    IF component_count = 0 THEN None
    ELSE IF ~selected.some THEN Some(0)
    ELSE IF component_count > selected.val + 1 THEN Some(selected.val + 1)
    ELSE Some(selected.val)

focus_prev(selected, component_count) ==
    IF component_count = 0 THEN None
    ELSE IF ~selected.some THEN None
    ELSE IF selected.val > 0 THEN Some(selected.val - 1)
    ELSE Some(selected.val)

(***************************************************************************)
(* ui/field_generator.rs: the generator as a form of two or three          *)
(* components: Length, Charset and, for the Custom charset, its text.      *)
(* panic is set by an unwrap of a component that does not exist.           *)
(***************************************************************************)
FieldGenerator_form ==
    [prev_charset_type |-> None, charset_type |-> Some("Alphanum"),
     field_len |-> TextInput_new,
     field_charset |-> ComboBox_with_input(ComboBox_new,
                                           CharsetKind_name("Alphanum")),
     field_charset_custom |-> None, selected |-> None, panic |-> FALSE]

component_count(g) == IF g.charset_type = Some("Custom") THEN 3 ELSE 2

\* Form::component(index): whether there is one
component(g, index) ==
    CASE index = 0 -> TRUE
      [] index = 1 -> TRUE
      [] index = 2 -> g.field_charset_custom.some
      [] OTHER -> FALSE

\* component_mut(selected).unwrap().input(key): [handled, g]
component_input(g, k) ==
    CASE ~component(g, g.selected.val) ->
             [handled |-> FALSE, g |-> [g EXCEPT !.panic = TRUE]]
      [] g.selected.val = 0 ->
             [handled |-> TextInput_input(g.field_len, k).handled,
              g |-> [g EXCEPT !.field_len = TextInput_input(@, k).t]]
      [] g.selected.val = 1 ->
             [handled |-> ComboBox_input(g.field_charset, k).handled,
              g |-> [g EXCEPT !.field_charset = ComboBox_input(@, k).c]]
      [] g.selected.val = 2 ->
             [handled |-> TextInput_input(g.field_charset_custom.val, k).handled,
              g |-> [g EXCEPT !.field_charset_custom =
                                  Some(TextInput_input(@.val, k).t)]]

\* the keys FormExt::input handles itself
FormExt_focus(g, k) ==
    CASE k \in {"Tab", "Down"} ->
             [handled |-> TRUE,
              g |-> [g EXCEPT !.selected = focus_next(@, component_count(g))]]
      [] k \in {"BackTab", "Up"} ->
             [handled |-> TRUE,
              g |-> [g EXCEPT !.selected = focus_prev(@, component_count(g))]]
      [] OTHER -> [handled |-> FALSE, g |-> g]

\* FormExt::input as FieldGenerator::input_form calls it: [handled, g],
\* handled when the focused component took the key or the focus moved
FormExt_input(g, k) ==
    IF g.selected.some /\ (component_input(g, k).handled \/ component_input(g, k).g.panic)
    THEN component_input(g, k)
    ELSE FormExt_focus(g, k)

\* the "Update state" block of input_form
update_charset(g) ==
    IF g.selected # Some(1) THEN g
    ELSE IF ComboBox_submit(g.field_charset).some
    THEN IF Some(CharsetKind_try_from(ComboBox_submit(g.field_charset).val).val)
            # g.prev_charset_type
         THEN [g EXCEPT
                   !.prev_charset_type = g.charset_type,
                   !.charset_type =
                       Some(CharsetKind_try_from(
                                ComboBox_submit(g.field_charset).val).val),
                   !.field_charset_custom =
                       IF ComboBox_submit(g.field_charset) = Some(3)
                       THEN Some(TextInput_new) ELSE None]
         ELSE g
    ELSE [g EXCEPT !.prev_charset_type = g.charset_type,
                   !.charset_type = None,
                   !.field_charset_custom = None]

\* FieldGenerator::input_form: [signal, g]
FieldGenerator_input_form(g, k) ==
    IF FormExt_input(g, k).g.panic
    THEN [signal |-> "none", g |-> FormExt_input(g, k).g]
    ELSE IF FormExt_input(g, k).handled
    THEN [signal |-> "none", g |-> update_charset(FormExt_input(g, k).g)]
    ELSE [signal |-> CASE k = "Esc" -> "Exit"
                       [] k = "Enter" -> "Return"
                       [] OTHER -> "none",
          g |-> g]

(***************************************************************************)
(* widgets/text_input_custom.rs with the PasswordFormatter of              *)
(* ui/password.rs: hidden graphemes are shown as "*".                      *)
(***************************************************************************)
PasswordFormatter_geometry(input, hidden) ==
    [i \in 1..Len(input) |-> IF hidden THEN 1 ELSE Width(input[i])]

CustomTextInput_new(hidden) ==
    [input |-> <<>>, index |-> 0, cursor_x |-> 0, hidden |-> hidden,
     formatted_geometry |-> <<>>]

CustomTextInput_rebuild_geometry(t) ==
    [t EXCEPT !.formatted_geometry = PasswordFormatter_geometry(t.input, t.hidden)]

CustomTextInput_update_cursor_x(t) ==
    [t EXCEPT !.cursor_x = Sum(SubSeq(t.formatted_geometry, 1, t.index))]

CustomTextInput_set_input(t, input) ==
    CustomTextInput_update_cursor_x(
        [CustomTextInput_rebuild_geometry([t EXCEPT !.input = input])
             EXCEPT !.index = Len(input)])

CustomTextInput_move_cursor_left(t) ==
    CustomTextInput_update_cursor_x(
        [t EXCEPT !.index = IF @ = 0 THEN 0 ELSE @ - 1])

CustomTextInput_move_cursor_right(t) ==
    CustomTextInput_update_cursor_x(
        [t EXCEPT !.index = Min(@ + 1, Len(t.formatted_geometry))])

\* the cursor moves on when the scalar made a new grapheme
CustomTextInput_entered(t, prev_count) ==
    IF prev_count # Len(t.formatted_geometry)
    THEN CustomTextInput_move_cursor_right(t) ELSE t

CustomTextInput_enter_char(t, new_char) ==
    CustomTextInput_entered(
        CustomTextInput_update_cursor_x(
            CustomTextInput_rebuild_geometry(
                [t EXCEPT !.input = SubSeq(@, 1, t.index) \o <<new_char>>
                                        \o SubSeq(@, t.index + 1, Len(@))])),
        Len(t.formatted_geometry))

CustomTextInput_delete_char(t) ==
    IF t.index = 0 THEN t
    ELSE CustomTextInput_move_cursor_left(
             CustomTextInput_rebuild_geometry(
                 [t EXCEPT !.input = SubSeq(@, 1, t.index - 1)
                                         \o SubSeq(@, t.index + 1, Len(@))]))

\* formatter_mut(|fmt| fmt.hidden = hidden)
CustomTextInput_formatter_mut(t, hidden) ==
    CustomTextInput_rebuild_geometry([t EXCEPT !.hidden = hidden])

\* CustomTextInput::input: [handled, t]
CustomTextInput_input(t, k) ==
    CASE k = "Backspace" -> [handled |-> TRUE, t |-> CustomTextInput_delete_char(t)]
      [] k \in {"Left", "Ctrl-b"} ->
             [handled |-> TRUE, t |-> CustomTextInput_move_cursor_left(t)]
      [] k \in {"Right", "Ctrl-f"} ->
             [handled |-> TRUE, t |-> CustomTextInput_move_cursor_right(t)]
      [] k = "Ctrl-a" ->
             [handled |-> TRUE,
              t |-> CustomTextInput_update_cursor_x([t EXCEPT !.index = 0])]
      [] k = "Ctrl-e" ->
             [handled |-> TRUE,
              t |-> CustomTextInput_update_cursor_x(
                        [t EXCEPT !.index = Len(t.formatted_geometry)])]
      [] k \notin NamedKeys ->
             [handled |-> TRUE, t |-> CustomTextInput_enter_char(t, k)]
      [] OTHER -> [handled |-> FALSE, t |-> t]

(***************************************************************************)
(* ui/password.rs: the password prompt, a form of the password input and   *)
(* the Hidden checkbox.  popup is "none" or the message shown.             *)
(***************************************************************************)
PasswordPrompt_new(new_password) ==
    [new_password |-> new_password, selected |-> 0,
     input |-> CustomTextInput_new(TRUE), hidden |-> TRUE, popup |-> "none",
     password |-> None, has_confirmation |-> ~new_password]

PasswordPrompt_submit(p) ==
    IF ~p.has_confirmation THEN None ELSE p.password

\* Popup::input: whether the key closes the popup
Popup_input(k) == k \in {"Enter", "Esc"}

\* Checkbox::input toggles on the space key; the key counts as taken then
Checkbox_input(value, k) ==
    IF k = " " THEN [handled |-> TRUE, value |-> ~value]
    ELSE [handled |-> FALSE, value |-> value]

\* component_mut(selected).unwrap().input(key): [handled, p]
PasswordPrompt_component_input(p, k) ==
    IF p.selected = 0
    THEN [handled |-> CustomTextInput_input(p.input, k).handled,
          p |-> [p EXCEPT !.input = CustomTextInput_input(@, k).t]]
    ELSE [handled |-> Checkbox_input(p.hidden, k).handled,
          p |-> [p EXCEPT !.hidden = Checkbox_input(@, k).value]]

\* FormExt::input on the prompt: [handled, p]; selected() is always Some
PasswordPrompt_FormExt_input(p, k) ==
    CASE PasswordPrompt_component_input(p, k).handled ->
             PasswordPrompt_component_input(p, k)
      [] k \in {"Tab", "Down"} ->
             [handled |-> TRUE,
              p |-> [p EXCEPT !.selected = focus_next(Some(@), 2).val]]
      [] k \in {"BackTab", "Up"} ->
             [handled |-> TRUE,
              p |-> [p EXCEPT !.selected = focus_prev(Some(@), 2).val]]
      [] OTHER -> [handled |-> FALSE, p |-> p]

\* the Enter arm of input_form: [signal, p]
PasswordPrompt_enter(p) ==
    CASE p.input.input = <<>> ->
             [signal |-> "none", p |-> [p EXCEPT !.popup = "Password is empty!"]]
      [] p.input.input # <<>> /\ p.new_password /\ ~p.password.some ->
             [signal |-> "none",
              p |-> [p EXCEPT !.password = Some(p.input.input),
                              !.input = CustomTextInput_set_input(@, <<>>)]]
      [] p.input.input # <<>> /\ p.new_password /\ p.password.some ->
             IF Some(p.input.input) # p.password
             THEN [signal |-> "none",
                   p |-> [p EXCEPT !.popup = "Passwords do not match!",
                                   !.password = None,
                                   !.input = CustomTextInput_set_input(@, <<>>)]]
             ELSE [signal |-> "Return", p |-> [p EXCEPT !.has_confirmation = TRUE]]
      [] OTHER ->
             [signal |-> "Return", p |-> [p EXCEPT !.password = Some(p.input.input)]]

\* PasswordPrompt::input_form: [signal, p]
PasswordPrompt_input_form(p, k) ==
    CASE p.popup # "none" ->
             [signal |-> "none",
              p |-> IF Popup_input(k) THEN [p EXCEPT !.popup = "none"] ELSE p]
      [] p.popup = "none" /\ PasswordPrompt_FormExt_input(p, k).handled ->
             [signal |-> "none",
              p |-> IF PasswordPrompt_FormExt_input(p, k).p.selected = 1
                    THEN [PasswordPrompt_FormExt_input(p, k).p EXCEPT
                              !.input = CustomTextInput_formatter_mut(
                                            @, PasswordPrompt_FormExt_input(p, k).p.hidden)]
                    ELSE PasswordPrompt_FormExt_input(p, k).p]
      [] OTHER ->
             CASE k = "Enter" -> PasswordPrompt_enter(p)
               [] k = "Esc" -> [signal |-> "Exit", p |-> p]
               [] OTHER -> [signal |-> "none", p |-> p]

\* the form widgets are not on screen: the generator form as constructed,
\* the prompt as constructed for an existing database, no Enter pressed
FormIdle ==
    /\ generator = FieldGenerator_form
    /\ prompt = [form |-> PasswordPrompt_new(FALSE), entered |-> <<>>]

\* no call made yet
NoCall == [made |-> FALSE]

\* no form is open
GenIdle == /\ gen = FieldGenerator_new
           /\ generated = NotCalled

InputIdle == /\ textInput = TextInput_new
             /\ viewport = None

ExplorerIdle == /\ explorer = Explorer_new(<<>>)
                /\ lastKey = "none"

CallIdle == call = NoCall

UiIdle == GenIdle /\ FormIdle /\ InputIdle /\ ExplorerIdle /\ CallIdle

(***************************************************************************)
(* Spec: one process working on the vault.                                 *)
(***************************************************************************)
FileVarsIdle == /\ pc = [p \in Procs |-> "idle"]
                /\ off = [p \in Procs |-> 0]
                /\ env = [p \in Procs |-> <<>>]
                /\ loads = 0

Init == /\ disk = NoFile
        /\ data = Data_default
        /\ db \in {[version |-> "V1", cipher |-> "XChaCha20Poly1305V1",
                    kdf |-> k, blob |-> <<>>] : k \in InitKdfs}
        /\ res = NoEvent
        /\ printed = <<>>
        /\ keyMem = NoKey
        /\ sealed = NotSealed
        /\ savedIters = <<>>
        /\ tampers = 0
        /\ FileVarsIdle
        /\ UiIdle

\* the caller adds an entry to the record (Data's fields are public)
EditData ==
    /\ Len(data.entries) < MaxEntries
    /\ data' = [data EXCEPT !.entries = Append(@, Len(@) + 1)]
    /\ UNCHANGED <<disk, db, res, printed, keyMem, sealed, savedIters, tampers,
                   pc, off, env, loads, uiVars>>

\* encrypt_database(&data, &db, password); the caller stores the blob in db
Encrypt ==
    \E pw \in Passwords, nonce \in Nonces :
        LET r == encrypt_database(data, db, pw, nonce) IN
        /\ res' = [op |-> "encrypt", pw |-> pw, r |-> r]
        /\ db' = IF r.ok THEN [db EXCEPT !.blob = r.val] ELSE db
        /\ printed' = encrypt_database_stdout(db, pw)
        /\ keyMem' = KeyBufferAfter(db, pw)
        /\ sealed' = IF r.ok
                     THEN [made |-> TRUE, pw |-> pw, hdr |-> Header(db),
                           data |-> data, blob |-> r.val]
                     ELSE sealed
        /\ UNCHANGED <<disk, data, savedIters, tampers, pc, off, env, loads,
                       uiVars>>

\* decrypt_database(&db, password); the caller takes the record
Decrypt ==
    \E pw \in Passwords :
        LET r == decrypt_database(db, pw) IN
        /\ res' = [op |-> "decrypt", pw |-> pw, r |-> r]
        /\ data' = IF r.ok THEN r.val ELSE data
        /\ printed' = decrypt_database_stdout(db, pw)
        /\ keyMem' = KeyBufferAfter(db, pw)
        /\ UNCHANGED <<disk, db, sealed, savedIters, tampers, pc, off, env, loads,
                       uiVars>>

\* the iteration of the record that the file holds, read back with password pw
DecodedIteration(file, pw) ==
    LET l == load_database(file) IN
    IF ~l.ok THEN Err(l.err)
    ELSE LET d == decrypt_database(l.val, pw)
         IN IF d.ok THEN Ok(d.val.iteration) ELSE Err(d.err)

\* save_database(&db, path) with at most one fault: one of its file
\* operations returns an error (done < 5), or everything succeeds and one
\* of the writes is a short one (short > 0), or nothing goes wrong.  A save
\* that follows a successful encryption and succeeds is a save of the
\* vault: the iteration the file then holds is recorded.
Save ==
    \E done \in 0..5, short \in 0..4 :
        /\ short = 0 \/ done = 5
        /\ LET s == save_database(db, disk, done, short) IN
           /\ disk' = s.file
           /\ res' = [op |-> "save", pw |-> "", r |-> s.r]
           /\ savedIters' =
                  IF /\ s.r.ok
                     /\ res.op = "encrypt"
                     /\ res.r.ok
                     /\ Len(savedIters) < MaxSaves
                     /\ DecodedIteration(s.file, sealed.pw).ok
                  THEN Append(savedIters, DecodedIteration(s.file, sealed.pw).val)
                  ELSE savedIters
        /\ UNCHANGED <<data, db, printed, keyMem, sealed, tampers, pc, off, env,
                       loads, uiVars>>

\* variant: a load that fails leaves the file truncated
Load_truncating_on_error ==
    LET r == load_database(disk) IN
    /\ res' = [op |-> "load", pw |-> "", r |-> r]
    /\ db' = IF r.ok THEN r.val ELSE db
    /\ disk' = IF r.ok THEN disk ELSE FileCreate(disk)
    /\ UNCHANGED <<data, printed, keyMem, sealed, savedIters, tampers,
                   pc, off, env, loads, uiVars>>

\* load_database(path); the caller takes the envelope
Load ==
    LET r == load_database(disk) IN
    /\ res' = [op |-> "load", pw |-> "", r |-> r]
    /\ db' = IF r.ok THEN r.val ELSE db
    /\ UNCHANGED <<disk, data, printed, keyMem, sealed, savedIters, tampers,
                   pc, off, env, loads, uiVars>>

Next == \/ EditData
        \/ Encrypt
        \/ Decrypt
        \/ Save
        \/ Load

Spec == Init /\ [][Next]_vars

(***************************************************************************)
(* SpecOpen: opening a vault file that may have been edited from outside.  *)
(* The run starts where Spec stands after a record was encrypted under     *)
(* "correct horse" and saved.                                              *)
(***************************************************************************)
Header_default == [version |-> "V1", cipher |-> "XChaCha20Poly1305V1",
                   kdf |-> Kdf_default, blob |-> <<>>]

\* the record with n entries
RecordOf(n) == [Data_default EXCEPT !.entries = [i \in 1..n |-> i]]

\* the envelope after encrypt_database(record, header, pw) with this nonce
SealedEnvelope(record, header, pw, nonce) ==
    [header EXCEPT !.blob = encrypt_database(record, header, pw, nonce).val]

\* the file a save of envelope d leaves when nothing fails
Container(d) == save_database(d, NoFile, 5, 0).file

InitOpen ==
    LET e == SealedEnvelope(RecordOf(MaxEntries), Header_default,
                            "correct horse", 0)
    IN /\ disk = Container(e)
       /\ data = RecordOf(MaxEntries)
       /\ db = e
       /\ res = NoEvent
       /\ printed = <<>>
       /\ keyMem = NoKey
       /\ sealed = [made |-> TRUE, pw |-> "correct horse",
                    hdr |-> Header(Header_default),
                    data |-> RecordOf(MaxEntries),
                    blob |-> e.blob]
       /\ savedIters = <<>>
       /\ tampers = 0
       /\ FileVarsIdle
       /\ UiIdle

\* what an edit may leave in place of token t: a number becomes another
\* number (a small one, a large one) or a byte that is no number; a byte of
\* the ciphertext becomes another byte; any other byte becomes another byte
TamperedTokens(t) ==
    IF DOMAIN t = {"num"} THEN {Num(3), Num(65), NL}
    ELSE IF DOMAIN t \in {{"enc", "k", "n", "i"}, {"mac"}} THEN {Num(3), NL}
    ELSE {B(0), NL}

\* an edit of the file from outside: one token overwritten, the file cut
\* short, or a newline appended
Tamper ==
    /\ tampers < MaxTamper
    /\ disk.exists
    /\ \/ \E i \in 1..Len(disk.bytes) :
              \E t \in TamperedTokens(disk.bytes[i]) :
                  disk' = [disk EXCEPT !.bytes[i] = t]
       \/ \E n \in 0..(Len(disk.bytes) - 1) :
              disk' = [disk EXCEPT !.bytes = SubSeq(@, 1, n)]
       \/ disk' = [disk EXCEPT !.bytes = Append(@, NL)]
    /\ disk' # disk
    /\ tampers' = tampers + 1
    /\ res' = [op |-> "tamper", pw |-> "", r |-> Ok("unit")]
    /\ UNCHANGED <<data, db, printed, keyMem, sealed, savedIters, pc, off, env,
                   loads, uiVars>>

NextOpen == \/ Tamper
            \/ Load
            \/ Decrypt

SpecOpen == InitOpen /\ [][NextOpen]_vars

(***************************************************************************)
(* SpecFile: two processes on the same vault file, without locks.  Each    *)
(* saves its own envelope once, one file operation per step, and either    *)
(* may load the file while it is not saving.                               *)
(***************************************************************************)
\* the envelopes the processes hold: records of different sizes
Envelopes == {SealedEnvelope(RecordOf(n), Header_default, "correct horse", 0) :
              n \in 0..MaxEntries}

InitFile ==
    /\ disk \in {NoFile} \cup {Container(e) : e \in Envelopes}
    /\ env \in [Procs -> Envelopes]
    /\ pc = [p \in Procs |-> "idle"]
    /\ off = [p \in Procs |-> 0]
    /\ loads = 0
    /\ res = NoEvent
    /\ data = Data_default
    /\ db = Header_default
    /\ printed = <<>>
    /\ keyMem = NoKey
    /\ sealed = NotSealed
    /\ savedIters = <<>>
    /\ tampers = 0
    /\ UiIdle

\* the writes of save_database in order: which buffer each one writes, and
\* the step that follows it
ChunkIndex(at) == CASE at = "magic" -> 1
                    [] at = "version" -> 2
                    [] at = "newline" -> 3
                    [] at = "content" -> 4

NextWrite(at) == CASE at = "magic" -> "version"
                   [] at = "version" -> "newline"
                   [] at = "newline" -> "content"
                   [] at = "content" -> "done"

\* File::create(path) of save_database: the file is truncated, the offset is 0
SaveCreate(p) ==
    /\ pc[p] = "idle"
    /\ disk' = FileCreate(disk)
    /\ off' = [off EXCEPT ![p] = 0]
    /\ pc' = [pc EXCEPT ![p] = "magic"]
    /\ UNCHANGED <<data, db, res, printed, keyMem, sealed, savedIters, tampers,
                   env, loads, uiVars>>

\* the next file.write of save_database, at the process's own offset
SaveWrite(p) ==
    /\ pc[p] \in {"magic", "version", "newline", "content"}
    /\ LET buf == SaveChunks(env[p])[ChunkIndex(pc[p])] IN
       \E n \in WriteCounts(buf) :
           /\ disk' = FileWrite(disk, off[p], SubSeq(buf, 1, n))
           /\ off' = [off EXCEPT ![p] = @ + n]
    /\ pc' = [pc EXCEPT ![p] = NextWrite(pc[p])]
    /\ UNCHANGED <<data, db, res, printed, keyMem, sealed, savedIters, tampers,
                   env, loads, uiVars>>

\* load_database(path) by a process that is not inside save_database
LoadFile(p) ==
    /\ pc[p] \in {"idle", "done"}
    /\ loads < MaxLoads
    /\ loads' = loads + 1
    /\ res' = [op |-> "load", pw |-> "", r |-> load_database(disk), file |-> disk,
               by |-> p]
    /\ UNCHANGED <<disk, data, db, printed, keyMem, sealed, savedIters, tampers,
                   pc, off, env, uiVars>>

NextFile == \E p \in Procs : \/ SaveCreate(p)
                             \/ SaveWrite(p)
                             \/ LoadFile(p)

SpecFile == InitFile /\ [][NextFile]_vars

(***************************************************************************)
(* SpecGen: the generator form with some Length text, some charset kind    *)
(* and some Custom text, on which submit is called.                        *)
(***************************************************************************)
\* the vault is not touched
CoreIdle ==
    /\ disk = NoFile
    /\ data = Data_default
    /\ db = Header_default
    /\ res = NoEvent
    /\ printed = <<>>
    /\ keyMem = NoKey
    /\ sealed = NotSealed
    /\ savedIters = <<>>
    /\ tampers = 0
    /\ FileVarsIdle

\* the texts of the Length input: no text, no number, a sign, a leading
\* zero, and the numbers up to MaxLength
LengthTexts ==
    {<<>>, <<"x">>, <<"-", "1">>, <<"+", "1">>, <<"0", "1">>}
    \cup {<<Digits[n + 1]>> : n \in 0..MaxLength}

\* the texts of the Custom input: up to MaxCustom scalars
CustomChars == {"a", "b"}
CustomTexts == UNION {[1..n -> CustomChars] : n \in 0..MaxCustom}

\* the values rng.random_range(0..n) returns: the lowest, a middle one,
\* the highest
RngDraws(n) == {0, n \div 2, n - 1}

\* the Custom input exists exactly while the kind is Custom (input_form)
InitGen ==
    /\ CoreIdle
    /\ gen \in {[charset_type |-> k, field_len |-> l, field_charset_custom |-> c] :
                    k \in {None} \cup {Some(kind) : kind \in CharsetKinds},
                    l \in LengthTexts,
                    c \in {None} \cup {Some(t) : t \in CustomTexts}}
    /\ gen.field_charset_custom.some = (gen.charset_type = Some("Custom"))
    /\ generated = NotCalled
    /\ FormIdle /\ InputIdle /\ ExplorerIdle /\ CallIdle

\* FieldGenerator::submit
Submit ==
    LET length == parse_usize(gen.field_len)
        n == IF length.some THEN length.val ELSE 0
        size == IF gen.charset_type.some /\ Charset(gen).some
                THEN Len(Charset(gen).val) ELSE 0
    IN \E draws \in [1..n -> RngDraws(IF size = 0 THEN 1 ELSE size)] :
           /\ generated' = FieldGenerator_submit(gen, draws)
           /\ UNCHANGED <<coreVars, gen, formVars, textInput, viewport, explorer,
                          lastKey, call>>

NextGen == Submit

SpecGen == InitGen /\ [][NextGen]_vars

(***************************************************************************)
(* SpecInput: a text input that receives keys and is rendered at some      *)
(* widths.                                                                 *)
(***************************************************************************)
InputKeys == {"a", WideGrapheme, "Backspace", "Left", "Right", "Ctrl-a", "Ctrl-e"}

InitInput == CoreIdle /\ UiIdle

\* TextInput::input
TextKey ==
    \E k \in InputKeys :
        /\ k \notin NamedKeys => Len(textInput.input) < MaxText
        /\ textInput' = TextInput_input(textInput, k).t
        /\ viewport' = None
        /\ UNCHANGED <<coreVars, genVars, formVars, explorer, lastKey, call>>

\* TextInput::render, as far as it changes the widget
TextRender ==
    \E viewport_width \in 1..MaxViewport :
        /\ textInput' = ensure_cursor_visible(textInput, viewport_width)
        /\ viewport' = Some(viewport_width)
        /\ UNCHANGED <<coreVars, genVars, formVars, explorer, lastKey, call>>

NextInput == TextKey \/ TextRender

SpecInput == InitInput /\ [][NextInput]_vars

(***************************************************************************)
(* SpecExplorer: the Explorer, opened on some entry list, receives keys.   *)
(***************************************************************************)
ExplorerKeys ==
    {"Enter", "Esc", "Up", "Down", "Shift-Up", "Shift-Down", "PageDown",
     "Delete", "Right", "Backspace", "a", "t", "/"}

\* what the field editor answers to a key: its signal and, on Return, the
\* field it submits
Signals == {"none", "Exit", "Return"}

UiField(name) == NewField(name, FieldValue_Text(name), FALSE)

SubmittedFields == {None, Some(UiField("url"))}

\* the lists the Explorer is opened on
InitEntryLists ==
    {<<>>, <<NewEntry(<<"a">>, <<UiField("user"), UiField("pass")>>, <<>>)>>}

InitExplorer ==
    /\ CoreIdle /\ GenIdle /\ FormIdle /\ InputIdle /\ CallIdle
    /\ explorer \in {Explorer_new(entries) : entries \in InitEntryLists}
    /\ lastKey = "none"

\* the entry editor shows its field editor (and no confirmation)
FieldEditorOpen(ex) ==
    /\ ex.editor.some
    /\ ~ex.editor.val.confirm.some
    /\ ex.editor.val.editor.some

\* the cases left out to keep the lists and the texts bounded
Capped(ex, k, maxEntries, maxName, maxFields) ==
    \/ /\ ex.new_entry.some
       /\ k \notin NamedKeys
       /\ Len(ex.new_entry.val.input) >= maxName
    \/ /\ ex.tag_editor.some
       /\ k \notin NamedKeys
       /\ Len(ex.tag_editor.val.input.input) >= maxName
    \/ /\ ~ex.editor.some /\ ~ex.tag_editor.some /\ ~ex.new_entry.some
       /\ ex.active = "Content"
       /\ k = "a"
       /\ Len(ex.entries) >= maxEntries
    \/ /\ ex.editor.some
       /\ ~ex.editor.val.confirm.some /\ ~ex.editor.val.editor.some
       /\ k = "a"
       /\ Len(ex.editor.val.entry.fields) >= maxFields

\* Explorer::input on a key of the set keys
ExplorerKeyIn(keys, maxEntries, maxName, maxFields) ==
    \E k \in keys :
    \E signal \in IF FieldEditorOpen(explorer) THEN Signals ELSE {"none"} :
    \E field \in IF signal = "Return" THEN SubmittedFields ELSE {None} :
        /\ ~Capped(explorer, k, maxEntries, maxName, maxFields)
        /\ explorer' = Explorer_input(explorer, k, signal, field)
        /\ lastKey' = k
        /\ UNCHANGED <<coreVars, genVars, formVars, textInput, viewport, call>>

\* Explorer::input
ExplorerKey == ExplorerKeyIn(ExplorerKeys, MaxUiEntries, MaxName, MaxFields)

NextExplorer == ExplorerKey

SpecExplorer == InitExplorer /\ [][NextExplorer]_vars

(***************************************************************************)
(* SpecEntry: the entry editor from the key that opens it on an entry of   *)
(* the list to the key that closes it.                                     *)
(***************************************************************************)
\* Explorer::new, Esc to leave the filter input, Enter on the first entry
InitEntry ==
    /\ CoreIdle /\ GenIdle /\ FormIdle /\ InputIdle /\ CallIdle
    /\ explorer \in
           {Explorer_input(Explorer_input(Explorer_new(entries), "Esc", "none", None),
                           "Enter", "none", None) :
                entries \in InitEntryLists \ {<<>>}}
    /\ lastKey = "Enter"

\* the keys of the entry editor
EditorKeys == ExplorerKeys \cup {"PageUp"}

\* Explorer::input while the entry editor is open
EditorKey ==
    explorer.editor.some /\ ExplorerKeyIn(EditorKeys, MaxUiEntries, MaxName, MaxFields)

NextEntry == EditorKey

SpecEntry == InitEntry /\ [][NextEntry]_vars

(***************************************************************************)
(* SpecLists: the Explorer on lists of up to MaxListEntries entries, with  *)
(* the keys that move the cursor, open and close the editors and add       *)
(* entries.                                                                *)
(***************************************************************************)
ListKeys == {"Enter", "Esc", "Down", "Up", "Shift-Down", "a", "t"}

InitLists ==
    /\ CoreIdle /\ GenIdle /\ FormIdle /\ InputIdle /\ CallIdle
    /\ explorer \in
           {Explorer_new(entries) :
                entries \in InitEntryLists
                            \cup {<<NewEntry(<<"a">>, <<UiField("user"), UiField("pass")>>,
                                             <<>>),
                                    NewEntry(<<"b">>, <<UiField("user")>>, <<>>)>>}}
    /\ lastKey = "none"

\* Explorer::input; the prompts get no grapheme (the names and the tags
\* stay empty) and the entry editor adds no field
ListKey == ExplorerKeyIn(ListKeys, MaxListEntries, 0, 0)

NextLists == ListKey

SpecLists == InitLists /\ [][NextLists]_vars

(***************************************************************************)
(* SpecForm: keys given to the FieldGenerator form.  The text of the       *)
(* charset combo box stays a prefix of a charset name, the two text        *)
(* inputs hold at most MaxFormText digits.                                 *)
(***************************************************************************)
FormKeys ==
    {"Tab", "BackTab", "Backspace", "End", "Home", "Enter", "Esc", "8"}
    \cup UNION {{CHARSET_TYPE[i][j] : j \in 1..Len(CHARSET_TYPE[i])} :
                    i \in 1..Len(CHARSET_TYPE)}

Eights(str) == Len(str) <= MaxFormText /\ \A i \in 1..Len(str) : str[i] = "8"

FormInScope(g) ==
    /\ \E i \in 1..Len(CHARSET_TYPE) : StartsWith(CHARSET_TYPE[i], g.field_charset.input)
    /\ Eights(g.field_len.input)
    /\ g.field_charset_custom.some => Eights(g.field_charset_custom.val.input)

InitForm == CoreIdle /\ UiIdle

\* FieldGenerator::input_form; a panic ends the program
FormKey ==
    \E k \in FormKeys :
        /\ ~generator.panic
        /\ FormInScope(FieldGenerator_input_form(generator, k).g)
        /\ generator' = FieldGenerator_input_form(generator, k).g
        /\ UNCHANGED <<coreVars, genVars, prompt, textInput, viewport, explorer,
                       lastKey, call>>

NextForm == FormKey

SpecForm == InitForm /\ [][NextForm]_vars

(***************************************************************************)
(* SpecPrompt: keys given to a PasswordPrompt, for an existing or for a    *)
(* new database.  prompt.entered records the texts of the last two Enter   *)
(* presses that submitted a text, the latest last.                         *)
(***************************************************************************)
PromptKeys == {"a", "b", " ", "Backspace", "Enter", "Esc", "Tab", "BackTab"}

PromptInScope(p) ==
    /\ Len(p.input.input) <= MaxPassword
    /\ \A i \in 1..Len(p.input.input) : p.input.input[i] \in {"a", "b"}

\* whether input_form reaches the Enter arm with a text to submit
Submits(p, k) ==
    /\ k = "Enter"
    /\ p.popup = "none"
    /\ ~PasswordPrompt_FormExt_input(p, k).handled
    /\ p.input.input # <<>>

LastTwo(seq) == IF Len(seq) > 2 THEN SubSeq(seq, Len(seq) - 1, Len(seq)) ELSE seq

InitPrompt ==
    /\ CoreIdle /\ GenIdle /\ InputIdle /\ ExplorerIdle /\ CallIdle
    /\ generator = FieldGenerator_form
    /\ prompt \in {[form |-> PasswordPrompt_new(new_password), entered |-> <<>>] :
                       new_password \in BOOLEAN}

\* PasswordPrompt::input_form
PromptKey ==
    \E k \in PromptKeys :
        /\ PromptInScope(PasswordPrompt_input_form(prompt.form, k).p)
        /\ prompt' =
               [form |-> PasswordPrompt_input_form(prompt.form, k).p,
                entered |-> IF Submits(prompt.form, k)
                            THEN LastTwo(Append(prompt.entered,
                                                prompt.form.input.input))
                            ELSE prompt.entered]
        /\ UNCHANGED <<coreVars, genVars, generator, textInput, viewport, explorer,
                       lastKey, call>>

NextPrompt == PromptKey

SpecPrompt == InitPrompt /\ [][NextPrompt]_vars


(***************************************************************************)
(* SpecCodec: some legal record is serialized and the bytes are            *)
(* deserialized.                                                           *)
(***************************************************************************)
\* one value of every variant, no recovery code, and two codes in an order
CodecValues ==
    FieldValuesOver({"s3cret"})
    \cup {[variant |-> "TwoFactorRecovery",
           payload |-> <<TwoFACode("c1", Some(1500000000)), TwoFACode("c2", None)>>]}

CodecField(value, hidden) ==
    [name |-> "user", value |-> value, hidden |-> hidden, date_added |-> 0,
     date_modified |-> 1000000, date_accessed |-> 2000001]

CodecFields ==
    {CodecField(value, FALSE) : value \in CodecValues}
    \cup {CodecField(FieldValue_Text(""), TRUE)}

CodecTags ==
    LET t1 == [name |-> "work", icon |-> None, color |-> Some(255)]
        t2 == [name |-> "", icon |-> Some("i"), color |-> None]
    IN {<<>>, <<t1>>, <<t1, t2>>, <<t2, t1>>}

CodecEntries ==
    {[name |-> "a/b", fields |-> fields, tags |-> tags, created_at |-> t,
      modified_at |-> t + 1, accessed_at |-> t + 1000] :
         fields \in UNION {[1..n -> CodecFields] : n \in 0..MaxCodecFields},
         tags \in CodecTags, t \in {0, 1500000000}}

\* the records: no entry, any one entry, and two entries without fields in
\* either order
CodecRecords ==
    LET bare == {e \in CodecEntries : e.fields = <<>> /\ e.tags = <<>>}
    IN {[iteration |-> i, entries |-> entries, created_at |-> 0,
         modified_at |-> 1500000000] :
            i \in {0, 7},
            entries \in {<<>>} \cup {<<e>> : e \in CodecEntries}
                        \cup {<<e1, e2>> : e1 \in bare, e2 \in bare}}

InitCodec ==
    /\ CoreIdle /\ GenIdle /\ FormIdle /\ InputIdle /\ ExplorerIdle
    /\ call \in {[made |-> FALSE, arg |-> record] : record \in CodecRecords}

\* bincode2::serialize(data), then bincode2::deserialize of the bytes
Codec ==
    /\ ~call.made
    /\ LET bytes == bincode_serialize_Record(call.arg)
       IN call' = [made |-> TRUE, arg |-> call.arg,
                   out |-> [bytes |-> bytes,
                            decoded |-> bincode_deserialize_Record(bytes)]]
    /\ UNCHANGED <<coreVars, genVars, formVars, textInput, viewport, explorer, lastKey>>

NextCodec == Codec

SpecCodec == InitCodec /\ [][NextCodec]_vars

(***************************************************************************)
(* SpecPreview: field_preview is called on two fields that differ at most  *)
(* in their value, with the same width, selection, yank mark and row       *)
(* number.                                                                 *)
(***************************************************************************)
PreviewValues == FieldValuesOver({"s3cret", "hunter2"})

PreviewArgs ==
    [width : {40, 100}, name : {<<"p">>, <<"p", "w">>}, hidden : BOOLEAN,
     value : PreviewValues, other : PreviewValues, selected : BOOLEAN,
     yanked : BOOLEAN, id : {0, 1}]

InitPreview ==
    /\ CoreIdle /\ GenIdle /\ FormIdle /\ InputIdle /\ ExplorerIdle
    /\ call \in {[made |-> FALSE, arg |-> arg] : arg \in PreviewArgs}

\* EntryEditor::field_preview on both fields
Preview ==
    /\ ~call.made
    /\ LET a == call.arg
           row(v) == field_preview(a.width, Some(NewField(a.name, v, a.hidden)),
                                   a.selected, a.yanked, a.id)
       IN call' = [made |-> TRUE, arg |-> a,
                   out |-> [value |-> row(a.value), other |-> row(a.other)]]
    /\ UNCHANGED <<coreVars, genVars, formVars, textInput, viewport, explorer, lastKey>>

NextPreview == Preview

SpecPreview == InitPreview /\ [][NextPreview]_vars

(***************************************************************************)
(* Properties.                                                             *)
(***************************************************************************)

\* the envelope in memory is the one the last successful encrypt_database
\* produced: same header, same blob
HoldsSealedEnvelope ==
    /\ sealed.made
    /\ Header(db) = sealed.hdr
    /\ db.blob = sealed.blob

\* the envelope the last successful encrypt_database completed
SealedDb == [version |-> sealed.hdr.version, cipher |-> sealed.hdr.cipher,
             kdf |-> sealed.hdr.kdf, blob |-> sealed.blob]

AuthFailure == Err("Failed to decrypt chacha20-poly1305 ciphertext: aead::Error")

\* C1: a save_database that returns an error (or a crash at the same point,
\* which leaves the same file) leaves the file at the path with the content
\* it had before the save started; stated for a save over a file that held a
\* loadable container.
C1_FailedSaveKeepsFile ==
    [][(Save /\ ~res'.r.ok /\ load_database(disk).ok) => disk' = disk]_vars

\* the files a reader may see when saves are atomic: no file yet, or the
\* complete container of some envelope
CompleteFiles == {NoFile} \cup {Container(e) : e \in Envelopes}

\* C2: a load_database concurrent with another process's save_database reads
\* a complete container (the previous one or the new one), and once both
\* processes have finished their save the file is the complete container
\* one of them wrote.
C2_ConcurrentAccessSeesCompleteFiles ==
    /\ res.op = "load" => res.file \in CompleteFiles
    /\ (\A p \in Procs : pc[p] = "done") =>
           disk \in {Container(env[p]) : p \in Procs}

\* C3: decrypt_database returns an error for an envelope that carries the
\* blob encrypt_database produced, untouched, under a header (version,
\* cipher, kdf) that differs from the one encrypt_database was given,
\* whatever the passphrase.
C3_OtherHeaderIsRejected ==
    (/\ res.op = "decrypt"
     /\ sealed.made
     /\ db.blob = sealed.blob
     /\ Header(db) # sealed.hdr) => ~res.r.ok

\* C3 witness: the correct passphrase, the blob untouched, key derivation
\* parameters that Argon2 and the cipher accept but that are not the sealed
\* ones: the failure is the authentication failure.
C3_Witness ==
    /\ res.op = "decrypt"
    /\ sealed.made
    /\ db.blob = sealed.blob
    /\ db.kdf # sealed.hdr.kdf
    /\ res.pw = sealed.pw
    /\ res.r = AuthFailure

\* C4: decrypt_database of a sealed envelope under another passphrase than
\* the one it was sealed with returns the authentication failure.
C4_WrongPassphraseIsAuthFailure ==
    (/\ res.op = "decrypt"
     /\ HoldsSealedEnvelope
     /\ res.pw # sealed.pw) => res.r = AuthFailure

C4_Witness ==
    /\ res.op = "decrypt"
    /\ HoldsSealedEnvelope
    /\ res.pw # sealed.pw
    /\ res.r = AuthFailure

\* C5: decrypt_database of the envelope whose blob is the result of
\* encrypt_database(record, envelope, p), under the same p, succeeds and
\* returns a record equal to the one encrypted.
C5_EncryptDecryptRoundTrip ==
    (/\ res.op = "decrypt"
     /\ HoldsSealedEnvelope
     /\ res.pw = sealed.pw) => res.r = Ok(sealed.data)

\* C5 witness: a record with an entry came back
C5_Witness ==
    /\ res.op = "decrypt"
    /\ HoldsSealedEnvelope
    /\ res.pw = sealed.pw
    /\ res.r.ok
    /\ Len(res.r.val.entries) > 0
    /\ res.r.val = sealed.data

\* C6: what encrypt_database and decrypt_database write to standard output
\* is the same for a run under any other passphrase (two runs that differ
\* only in the secret print the same).
C6_OutputIndependentOfSecrets ==
    /\ res.op = "encrypt" =>
           \A pw \in Passwords : encrypt_database_stdout(db, pw) = printed
    /\ res.op = "decrypt" =>
           \A pw \in Passwords : decrypt_database_stdout(db, pw) = printed

\* C7: when encrypt_database or decrypt_database has returned, on any path,
\* the buffer that held the derived key holds zeros (or no key was derived).
C7_KeyZeroedOnReturn ==
    res.op \in {"encrypt", "decrypt"} => keyMem \in {NoKey, Zeroed}

\* C8: the records decoded from the file after successive successful saves
\* have strictly increasing iteration.
C8_IterationStrictlyIncreasing ==
    \A i, j \in DOMAIN savedIters : i < j => savedIters[i] < savedIters[j]

\* C9: load_database returns an error for every file whose bytes do not
\* start with the magic (nothing has written the file since the load: every
\* step that changes the file replaces res).
C9_NoMagicIsRejected ==
    (/\ res.op = "load"
     /\ ~StartsWith(disk.bytes, MAGIC)) => ~res.r.ok

\* C9 witness: the first byte of the magic overwritten, the rest intact
C9_Witness ==
    /\ res.op = "load"
    /\ disk.exists
    /\ Len(disk.bytes) > Len(MAGIC)
    /\ disk.bytes[1] = B(0)
    /\ Tail(disk.bytes) = Tail(Container(SealedDb).bytes)
    /\ res.r = Err("Failed to verify MAGIC number")

\* the bytes between the magic and the first '\n' after it are "0.1"
VersionLineIs01(bytes) ==
    LET nl == Position(bytes, NL, Len(MAGIC) + 1)
    IN /\ nl # 0
       /\ SubSeq(bytes, Len(MAGIC) + 1, nl - 1) = PasskVersion_into

\* C10: load_database returns an error for every file whose version line is
\* not exactly "0.1".
C10_UnknownVersionIsRejected ==
    (/\ res.op = "load"
     /\ ~VersionLineIs01(disk.bytes)) => ~res.r.ok

\* C10 witness: magic and envelope intact, a terminated version line that is
\* not "0.1"
C10_Witness ==
    /\ res.op = "load"
    /\ StartsWith(disk.bytes, MAGIC)
    /\ Position(disk.bytes, NL, Len(MAGIC) + 1) = Len(MAGIC) + 4
    /\ ~VersionLineIs01(disk.bytes)
    /\ serde_json_from_slice(SubSeq(disk.bytes, Len(MAGIC) + 5, Len(disk.bytes))).ok
    /\ res.r = Err("Invaid header: Unknown version")

\* index of the first '\n' after the magic, 0 when there is none
FirstNewline(bytes) == Position(bytes, NL, Len(MAGIC) + 1)

\* what a reader returns that takes the bytes between the magic and the
\* first '\n' after it as the version and every byte after that '\n' as
\* the envelope
SplitAtFirstNewline(bytes) ==
    LET nl == FirstNewline(bytes)
        v == PasskVersion_try_from(SubSeq(bytes, Len(MAGIC) + 1, nl - 1))
        d == serde_json_from_slice(SubSeq(bytes, nl + 1, Len(bytes)))
    IN IF v.ok /\ d.ok THEN Ok(d.val) ELSE Err("rejected")

\* C11: for a file that starts with the magic and has a '\n' after it,
\* load_database succeeds exactly when the bytes between the magic and the
\* first '\n' are a known version and the bytes after that first '\n', up
\* to the end of the file, decode as an envelope, and it returns that
\* envelope; also when the bytes after the first '\n' contain '\n'.
C11_SplitsAtFirstNewline ==
    (/\ res.op = "load"
     /\ StartsWith(disk.bytes, MAGIC)
     /\ FirstNewline(disk.bytes) # 0) =>
        /\ res.r.ok = SplitAtFirstNewline(disk.bytes).ok
        /\ res.r.ok => res.r = SplitAtFirstNewline(disk.bytes)

\* C12: after a save_database(db, path) that returned Ok, load_database
\* on the path returns an envelope equal to db (version, cipher, kdf and
\* blob are all the fields of an envelope).
C12_SaveLoadRoundTrip ==
    (/\ res.op = "save"
     /\ res.r.ok) => load_database(disk) = Ok(db)

\* C13: load_database returns an error when no '\n' follows the magic,
\* and when the first '\n' after the magic is the last byte of the file
\* (the envelope region has zero length).
C13_NoNewlineOrEmptyEnvelopeIsRejected ==
    (/\ res.op = "load"
     /\ \/ FirstNewline(disk.bytes) = 0
        \/ FirstNewline(disk.bytes) = Len(disk.bytes)) => ~res.r.ok

\* C13 witness: the file cut right after the version line
C13_Witness ==
    /\ res.op = "load"
    /\ disk.bytes = MAGIC \o PasskVersion_into \o <<NL>>
    /\ res.r = Err("Failed to deserialize")

\* the other case of C13: magic and version intact, the '\n' overwritten
C13_Witness_NoNewline ==
    /\ res.op = "load"
    /\ StartsWith(disk.bytes, MAGIC \o PasskVersion_into)
    /\ Len(disk.bytes) > Len(MAGIC) + 4
    /\ FirstNewline(disk.bytes) = 0
    /\ res.r = Err("Invalid header")

\* the error decrypt_database returns for the sealed envelope under a
\* passphrase other than the one it was sealed with
WrongPassphraseError ==
    decrypt_database(SealedDb, CHOOSE pw \in Passwords : pw # sealed.pw)

\* C14: a decrypt_database that fails for a wrong passphrase, for a blob
\* that is not the sealed one, or for key derivation parameters that are
\* not the sealed ones returns the same error as the open of the sealed
\* envelope under a wrong passphrase: all such failures return one error.
C14_FailedOpensReturnOneError ==
    (/\ res.op = "decrypt"
     /\ sealed.made
     /\ ~res.r.ok
     /\ \/ res.pw # sealed.pw
        \/ db.blob # sealed.blob
        \/ db.kdf # sealed.hdr.kdf) => res.r = WrongPassphraseError

\* C15: decrypt_database of an envelope whose memory parameter is above
\* 1 GiB (1048576 KiB) or whose iterations parameter is above 64 returns
\* an error and derives no key (Argon2 does not run).
C15_KdfParametersAreCapped ==
    (/\ res.op = "decrypt"
     /\ \/ db.kdf.memory > 1048576
        \/ db.kdf.iterations > 64) =>
        /\ ~res.r.ok
        /\ keyMem = NoKey

\* C16: encrypt_database and decrypt_database return an error (no blob, no
\* record) for every envelope whose key_len is not 32.
C16_KeyLenMismatchIsRefused ==
    (/\ res.op \in {"encrypt", "decrypt"}
     /\ db.kdf.key_len # 32) => ~res.r.ok

\* C16 witness: encrypt_database with key_len 16 refused by the cipher
C16_Witness ==
    /\ res.op = "encrypt"
    /\ db.kdf.key_len = 16
    /\ db.blob = <<>>
    /\ res.r = Err("Failed to initialize chacha20-poly1305 cipher")

\* C17: a step that is a load_database or a decrypt_database leaves the
\* file as it was, whatever the call returns.
C17_OpeningKeepsFile ==
    [][res'.op \in {"load", "decrypt"} => disk' = disk]_vars

\* C17 witness: an open under the wrong passphrase has failed and the file
\* is still the container that was saved
C17_Witness ==
    /\ res.op = "decrypt"
    /\ db = SealedDb
    /\ res.pw # sealed.pw
    /\ ~res.r.ok
    /\ disk = Container(SealedDb)

\* the distinct scalars of the alphabet the generator is set to
Symbols(g) ==
    IF g.charset_type.some /\ Charset(g).some
    THEN {Charset(g).val[i] : i \in DOMAIN Charset(g).val}
    ELSE {}

\* C18: FieldGenerator::submit returns no string when the requested length
\* is 0 or the alphabet of the chosen charset (built-in or Custom) has
\* fewer than 2 distinct symbols.
C18_RefusesDegenerateRequests ==
    (/\ generated.called
     /\ \/ parse_usize(gen.field_len) = Some(0)
        \/ Cardinality(Symbols(gen)) < 2) => ~generated.r.some

\* C19: a string FieldGenerator::submit returns has exactly as many
\* scalars as the Length input asks for, and every scalar is a symbol of
\* the chosen alphabet.
C19_GeneratedFromAlphabet ==
    (/\ generated.called
     /\ generated.r.some) =>
        /\ Len(generated.r.val) = parse_usize(gen.field_len).val
        /\ \A i \in DOMAIN generated.r.val : generated.r.val[i] \in Symbols(gen)

\* C19 witness: two scalars of Base86, the first and the last symbol
C19_Witness ==
    /\ generated.called
    /\ gen.charset_type = Some("Base86")
    /\ gen.field_len = <<"2">>
    /\ generated.r = Some(<<"!", "z">>)

\* C20: when submit has generated a string from the Custom charset, the
\* alphabet it sampled holds no scalar twice, and the alphabet size in the
\* entropy shown by render_form is the number of distinct scalars of the
\* Custom text.
C20_CustomAlphabetIsDeduplicated ==
    (/\ generated.called
     /\ generated.r.some
     /\ gen.charset_type = Some("Custom")) =>
        /\ \A i, j \in DOMAIN generated.charset :
               i # j => generated.charset[i] # generated.charset[j]
        /\ render_form_entropy(gen).size = Cardinality(Symbols(gen))

\* the printable ASCII scalars other than the space (U+0021 to U+007E)
PrintableAsciiNoSpace ==
    {"!", "\"", "#", "$", "%", "&", "'", "(", ")", "*", "+", ",", "-", ".",
     "/", "0", "1", "2", "3", "4", "5", "6", "7", "8", "9", ":", ";", "<",
     "=", ">", "?", "@", "A", "B", "C", "D", "E", "F", "G", "H", "I", "J",
     "K", "L", "M", "N", "O", "P", "Q", "R", "S", "T", "U", "V", "W", "X",
     "Y", "Z", "[", "\\", "]", "^", "_", Backtick, "a", "b", "c", "d", "e",
     "f", "g", "h", "i", "j", "k", "l", "m", "n", "o", "p", "q", "r", "s",
     "t", "u", "v", "w", "x", "y", "z", "{", "|", "}", "~"}

\* no element occurs twice in the sequence
NoRepeat(seq) == \A i, j \in DOMAIN seq : i # j => seq[i] # seq[j]

\* C21: the alphabet submit builds for Alphabetic has 52 symbols, the one
\* for Base86 has 86 symbols, no symbol is repeated in either, and every
\* symbol of Base86 is printable ASCII other than the space.
C21_BuiltinAlphabetSizes ==
    (/\ generated.called
     /\ generated.r.some) =>
        /\ gen.charset_type = Some("Alpha") =>
               /\ Len(generated.charset) = 52
               /\ NoRepeat(generated.charset)
        /\ gen.charset_type = Some("Base86") =>
               /\ Len(generated.charset) = 86
               /\ NoRepeat(generated.charset)
               /\ \A i \in DOMAIN generated.charset :
                      generated.charset[i] \in PrintableAsciiNoSpace

\* C21 witness: a string was generated from Base86, whose alphabet has
\* the backslash and the grave accent among its 86 symbols
C21_Witness ==
    /\ generated.called
    /\ generated.r.some
    /\ gen.charset_type = Some("Base86")
    /\ Len(generated.charset) = 86
    /\ \E i, j \in DOMAIN generated.charset :
           /\ generated.charset[i] = "\\"
           /\ generated.charset[j] = Backtick

\* C30: after TextInput::ensure_cursor_visible(viewport_width) the cursor
\* column lies inside the viewport: scroll_x <= cursor_x and
\* cursor_x < scroll_x + viewport_width.
C30_CursorIsVisible ==
    viewport.some =>
        /\ textInput.scroll_x <= textInput.cursor_x
        /\ textInput.cursor_x < textInput.scroll_x + viewport.val

\* C22: every entry of the record the Explorer hands back has a non-empty
\* name.
C22_EntryNamesAreNonEmpty ==
    \A i \in DOMAIN Explorer_submit(explorer) :
        Explorer_submit(explorer)[i].name # <<>>

\* the fields shown by the entry editor, before and after a step
EditorFields(ex) == ex.editor.val.entry.fields

\* the key answers Yes / No in a confirmation whose focused button is
\* selected
AnswersYes(confirm, k) == k = "y" \/ (k = "Enter" /\ confirm.selected = 0)

AnswersNo(confirm, k) == k = "n" \/ (k = "Enter" /\ confirm.selected # 0)

\* the confirmation with the given action is open in the entry editor
Asking(ex, action) ==
    /\ ex.editor.some
    /\ ex.editor.val.confirm.some
    /\ ex.editor.val.confirm_action = Some(action)

\* g is f with the fields at the neighbouring indices i and i + 1 exchanged
IsSwapOfNeighbours(f, g, i) ==
    /\ i >= 1 /\ i + 1 <= Len(f)
    /\ Len(g) = Len(f)
    /\ g[i] = f[i + 1] /\ g[i + 1] = f[i]
    /\ \A j \in DOMAIN f : j \notin {i, i + 1} => g[j] = f[j]

\* g is f without the field at index i
IsRemoval(f, g, i) ==
    /\ i \in DOMAIN f
    /\ Len(g) = Len(f) - 1
    /\ \A j \in DOMAIN g : g[j] = IF j < i THEN f[j] ELSE f[j + 1]

\* C24: a key changes the field list of the entry editor in one of four
\* ways only: a reorder key exchanges the selected field with a neighbour,
\* the field editor's result replaces the selected field where it stands,
\* or is appended at the end when nothing is selected, a confirmed delete
\* takes one field out; every other field keeps its place.  When the editor
\* closes, the entry it hands over has the fields in the order shown.
C24_FieldOrderIsPreserved ==
    [][/\ (explorer.editor.some /\ explorer'.editor.some) =>
            LET f == EditorFields(explorer)
                g == EditorFields(explorer')
                ed == explorer.editor.val
            IN \/ g = f
               \/ /\ lastKey' \in {"Shift-Up", "Shift-Down"}
                  /\ ed.selected.some
                  /\ explorer'.editor.val.selected.some
                  /\ IsSwapOfNeighbours(
                         f, g, 1 + Min(ed.selected.val,
                                       explorer'.editor.val.selected.val))
               \/ /\ ed.editor.some /\ ed.selected.some
                  /\ Len(g) = Len(f)
                  /\ \A j \in DOMAIN f : j # ed.selected.val + 1 => g[j] = f[j]
               \/ /\ ed.editor.some /\ ~ed.selected.some
                  /\ Len(g) = Len(f) + 1
                  /\ SubSeq(g, 1, Len(f)) = f
               \/ /\ Asking(explorer, "Delete")
                  /\ \E i \in DOMAIN f : IsRemoval(f, g, i)
       /\ (explorer.editor.some /\ ~explorer'.editor.some) =>
            \/ explorer'.entries = explorer.entries
            \/ explorer'.entries[explorer.selected + 1].fields
                   = EditorFields(explorer)
      ]_vars

\* an edited field and an untouched one, exchanged by a reorder key
C24_Witness ==
    /\ explorer.editor.some
    /\ EditorFields(explorer) = <<UiField("pass"), UiField("url")>>
    /\ lastKey = "Shift-Up"

\* C25: while the entry editor is open, modified is true whenever the
\* edited entry differs from the entry the editor was opened with.
C25_ModifiedTracksChanges ==
    explorer.editor.some =>
        (explorer.editor.val.entry # CursorEntry(explorer)
             => explorer.editor.val.modified)

\* C26: answering No to 'Exit and save changes?' closes the editor and
\* leaves the Explorer's entry list as it was; the list changes when the
\* editor closes only if that confirmation was answered Yes.
C26_NoDiscardsTheEdit ==
    [][/\ (Asking(explorer, "Quit")
             /\ AnswersNo(explorer.editor.val.confirm.val, lastKey')) =>
            /\ ~explorer'.editor.some
            /\ explorer'.entries = explorer.entries
       /\ (explorer.editor.some /\ explorer'.entries # explorer.entries) =>
            /\ Asking(explorer, "Quit")
            /\ AnswersYes(explorer.editor.val.confirm.val, lastKey')
      ]_vars

\* C27: the field list of the entry editor loses a field only when the
\* 'Really delete field' confirmation is answered Yes, and then the field
\* it loses is the selected one, the one the dialog names; any other key
\* in that dialog leaves the fields and the selection as they are.
C27_DeleteOnlyOnYes ==
    [][(explorer.editor.some /\ explorer'.editor.some) =>
            LET f == EditorFields(explorer)
                g == EditorFields(explorer')
                ed == explorer.editor.val
            IN /\ Len(g) < Len(f) =>
                    /\ Asking(explorer, "Delete")
                    /\ AnswersYes(ed.confirm.val, lastKey')
                    /\ IsRemoval(f, g, ed.selected.val + 1)
                    /\ ed.confirm.val.title
                           = <<"Really delete field", f[ed.selected.val + 1].name>>
               /\ (Asking(explorer, "Delete")
                     /\ ~AnswersYes(ed.confirm.val, lastKey')) =>
                    /\ g = f
                    /\ explorer'.editor.val.selected = ed.selected
      ]_vars

\* the first of two fields was deleted after a Yes
C27_Witness ==
    /\ explorer.editor.some
    /\ EditorFields(explorer) = <<UiField("pass")>>
    /\ ~explorer.editor.val.confirm.some
    /\ ~explorer.editor.val.modified
    /\ lastKey = "Enter"

\* C28: Esc in the New Entry prompt closes the prompt and adds no entry;
\* the list grows only when the prompt is submitted with Enter.
C28_EscCancelsNewEntry ==
    [][/\ (explorer.new_entry.some /\ lastKey' = "Esc") =>
            /\ ~explorer'.new_entry.some
            /\ explorer'.entries = explorer.entries
       /\ Len(explorer'.entries) > Len(explorer.entries) =>
            /\ explorer.new_entry.some
            /\ lastKey' = "Enter"
      ]_vars

\* C29: the rows rendered for two hidden fields that differ only in their
\* value are equal, whatever the variants and payloads of the two values,
\* and show the fixed mask.
C29_HiddenValueIsMasked ==
    (call.made /\ call.arg.hidden) =>
        /\ call.out.value = call.out.other
        /\ call.out.value # Panic
        /\ call.out.value.line[5] = Span("*****", "red")

\* two hidden fields of different variants and payloads, one of a variant
\* that is not rendered when shown, give the same row
C29_Witness ==
    /\ call.made
    /\ call.arg.hidden
    /\ call.arg.value = FieldValue_Text("s3cret")
    /\ call.arg.other.variant = "Binary"
    /\ call.out.value = call.out.other
    /\ call.out.value # Panic

\* C23: deserializing the serialization of a legal record gives back the
\* record: the same entries, fields, tags and recovery codes in the same
\* order, every value with its variant and payload.
C23_RecordCodecRoundTrip ==
    call.made => call.out.decoded = Ok(call.arg)

\* a record whose entry holds two fields, the first with two recovery
\* codes, and two tags came back equal
C23_Witness ==
    /\ call.made
    /\ call.out.decoded = Ok(call.arg)
    /\ Len(call.arg.entries) = 1
    /\ Len(call.arg.entries[1].fields) = 2
    /\ call.arg.entries[1].fields[1].value.variant = "TwoFactorRecovery"
    /\ Len(call.arg.entries[1].fields[1].value.payload) = 2
    /\ call.arg.entries[1].fields[2].value.variant = "Binary"
    /\ Len(call.arg.entries[1].tags) = 2

(***************************************************************************)
(* C33: while the entry editor is open, whatever keys it has received      *)
(* (moves, page up and down, add, edit, reorder, delete and its            *)
(* confirmation), its selection is None or an index below the number of    *)
(* fields of the entry, so entry.fields[selected] exists.                  *)
(***************************************************************************)
C33_SelectedIsInBounds ==
    explorer.editor.some =>
        LET ed == explorer.editor.val IN
        \/ ~ed.selected.some
        \/ ed.selected.val \in 0..(Len(ed.entry.fields) - 1)

\* the last field was selected and its deletion has just been confirmed: the
\* selection is the field before it
C33_Witness ==
    /\ explorer.editor.some
    /\ lastKey = "Enter"
    /\ ~explorer.editor.val.confirm.some
    /\ explorer.editor.val.entry.fields = <<UiField("user")>>
    /\ explorer.editor.val.selected = Some(0)

(***************************************************************************)
(* C34: an editor (entry editor or tag editor) is opened on the entry      *)
(* under the cursor, entries[filtered_entries[selected]].  While it is     *)
(* open the list, the filter and the cursor stay as they are, the editor   *)
(* that opens holds that entry, and the key that closes it changes no      *)
(* other entry than that one.                                              *)
(***************************************************************************)
OpenedOn(ex) == ex.filtered_entries[ex.selected + 1] + 1

EditorIsOpen(ex) == ex.editor.some \/ ex.tag_editor.some

C34_EditorReplacesItsEntry ==
    [][/\ (~EditorIsOpen(explorer) /\ explorer'.editor.some) =>
              explorer'.editor.val.entry = explorer.entries[OpenedOn(explorer)]
       /\ (~EditorIsOpen(explorer) /\ explorer'.tag_editor.some) =>
              explorer'.tag_editor.val =
                  EntryTagEditor_new(explorer.entries[OpenedOn(explorer)].tags)
       /\ EditorIsOpen(explorer) =>
              /\ explorer'.selected = explorer.selected
              /\ explorer'.filtered_entries = explorer.filtered_entries
              /\ DOMAIN explorer'.entries = DOMAIN explorer.entries
              /\ \A i \in DOMAIN explorer.entries :
                     i # OpenedOn(explorer) =>
                         explorer'.entries[i] = explorer.entries[i]
              /\ EditorIsOpen(explorer') => explorer'.entries = explorer.entries
      ]_vars

\* the editor was opened on the second of two entries and has been closed with
\* a changed entry: the first entry is as it was, the second is the result
C34_Witness ==
    /\ ~EditorIsOpen(explorer)
    /\ lastKey = "Enter"
    /\ Len(explorer.entries) = 2
    /\ explorer.selected = 1
    /\ explorer.entries[1] =
           NewEntry(<<"a">>, <<UiField("user"), UiField("pass")>>, <<>>)
    /\ explorer.entries[2] = NewEntry(<<"b">>, <<UiField("url")>>, <<>>)

(***************************************************************************)
(* C35: of the entry editor, the tag editor and the New Entry prompt, at   *)
(* most one is open in any state the Explorer reaches.                     *)
(***************************************************************************)
C35_AtMostOneDialog ==
    Cardinality({w \in {"editor", "tag_editor", "new_entry"} :
                     explorer[w].some}) <= 1

\* the New Entry prompt has been opened from a list that holds an entry, on
\* which the two editors can be opened as well
C35_Witness ==
    /\ explorer.entries # <<>>
    /\ explorer.new_entry.some
    /\ lastKey = "a"
    /\ ~explorer.editor.some /\ ~explorer.tag_editor.some

\* the charset kind whose name is the text, if there is one
Matching(str) ==
    IF \E kind \in CharsetKinds : CharsetKind_name(kind) = str
    THEN Some(CHOOSE kind \in CharsetKinds : CharsetKind_name(kind) = str)
    ELSE None

\* C31: in the FieldGenerator form, charset_type is the charset whose name
\* is exactly the text of the charset combo box, and None exactly when no
\* charset name is the text.
C31_CharsetFollowsText ==
    generator.charset_type = Matching(generator.field_charset.input)

C32_SubmitIsConfirmed ==
    PasswordPrompt_submit(prompt.form).some =>
        /\ PasswordPrompt_submit(prompt.form).val # <<>>
        /\ prompt.form.new_password =>
               prompt.entered = <<PasswordPrompt_submit(prompt.form).val,
                                  PasswordPrompt_submit(prompt.form).val>>

====
